---- MODULE Spec2Model ----
(***************************************************************************)
(* The account-security core of the Flask registration / login application *)
(* (src/app.py): validators, the users and login_attempts tables, the      *)
(* failed-login counter with its time-based lock, and the handlers of      *)
(* /register, /login, /dashboard, /logout, /api/users/count and            *)
(* /api/login-attempts.  Every SQL statement (or, where the sqlite3        *)
(* module holds a transaction open, every transaction) is one atomic step  *)
(* of the request that issues it, so that requests served by different     *)
(* worker threads interleave between statements as they can in sqlite.     *)
(*                                                                         *)
(* Text is modelled as a sequence of one-character strings.                *)
(***************************************************************************)
EXTENDS Integers, Sequences, FiniteSets, TLC

VARIABLES
    users,            \* the users table: a sequence of rows in insertion order
    login_attempts,   \* the login_attempts table: a sequence of rows
    now,              \* the wall clock, in minutes
    session,          \* session[c]: the signed session cookie of client c
    pc,               \* pc[c]: where the request of client c stands
    req,              \* req[c]: form data, locals and response of that request
    hist,             \* completed login calls, oldest first (history variable)
    nreq              \* number of requests started so far (bounds the run)

vars == <<users, login_attempts, now, session, pc, req, hist, nreq>>

----------------------------------------------------------------------------
(* Bounds of the model *)

\* number of clients (worker threads serving one request each at a time)
NumClients == 2
\* requests started in one behaviour of Spec
MaxRequests == 8
\* requests started in one behaviour of SpecConc
MaxConcRequests == 3
\* requests started in one behaviour of SpecReg
MaxRegRequests == 3
\* requests started in one behaviour of SpecForms
MaxFormRequests == 3
\* requests started in one behaviour of SpecLogin
MaxLoginRequests == 2
\* requests started in one behaviour of SpecProbe
MaxProbeRequests == 3
\* requests started in one behaviour of SpecAll
MaxAllRequests == 2
\* requests started in one behaviour of SpecFault
MaxFaultRequests == 3
\* requests started in one behaviour of SpecStreak
MaxStreakRequests == 6
\* requests started in one behaviour of SpecSession
MaxSessionRequests == 3
\* calls made in one behaviour of SpecValid
MaxValidCalls == 1
\* the longest password tail, username tail and email that SpecValid submits
MaxPwTail == 4
MaxNameTail == 3
MaxMailLen == 7
\* requests started in one behaviour of SpecRound
MaxRoundRequests == 7
MaxPairRequests == 2
\* the clock stops here
MaxClock == 40
\* the clock advances in steps of this many minutes
TickMinutes == 10
\* salts the password hasher draws from
NumSalts == 1

(* Program constants *)

\* increment_failed_login: failed_login_attempts >= 5
LockThreshold == 5
\* increment_failed_login: timedelta(minutes=30)
LockMinutes == 30
\* validate_password: len(password) < 8
MinPasswordLen == 8
\* validate_username: len(username) < 3 or len(username) > 20
MinUsernameLen == 3
MaxUsernameLen == 20
\* get_login_attempts: LIMIT 10
ListLimit == 10
\* SQL NULL (timestamps are >= 0)
NULL == -1

Clients == 1 .. NumClients
Salts == 1 .. NumSalts

----------------------------------------------------------------------------
(* Characters and text *)

UpperCase == {"A","B","C","D","E","F","G","H","I","J","K","L","M",
              "N","O","P","Q","R","S","T","U","V","W","X","Y","Z"}
LowerCase == {"a","b","c","d","e","f","g","h","i","j","k","l","m",
              "n","o","p","q","r","s","t","u","v","w","x","y","z"}
Digits == {"0","1","2","3","4","5","6","7","8","9"}
\* the class [!@#$%^&*(),.?":{}|<>] of validate_password
SpecialChars == {"!","@","#","$","%","^","&","*","(",")",",",".","?","\"",
                 ":","{","}","|","<",">"}
\* what str.strip() removes
Whitespace == {" ", "\t", "\n", "\r"}

\* [a-zA-Z0-9_]
WordChars == UpperCase \cup LowerCase \cup Digits \cup {"_"}
\* [a-zA-Z0-9._%+-]
EmailLocalChars == UpperCase \cup LowerCase \cup Digits \cup {".","_","%","+","-"}
\* [a-zA-Z0-9.-]
EmailDomainChars == UpperCase \cup LowerCase \cup Digits \cup {".","-"}
\* [a-zA-Z]
Letters == UpperCase \cup LowerCase

AllIn(s, class) == \A i \in 1 .. Len(s) : s[i] \in class
AnyIn(s, class) == \E i \in 1 .. Len(s) : s[i] \in class

RECURSIVE LStrip(_)
LStrip(s) ==
    IF s # <<>> /\ Head(s) \in Whitespace THEN LStrip(Tail(s)) ELSE s

RECURSIVE RStrip(_)
RStrip(s) ==
    IF s # <<>> /\ s[Len(s)] \in Whitespace
    THEN RStrip(SubSeq(s, 1, Len(s) - 1)) ELSE s

\* str.strip()
Strip(s) == RStrip(LStrip(s))

\* The positions at which the regex anchor $ matches in s (as an index of the
\* last character consumed): the end of the text, and just before a newline
\* that ends the text.
DollarEnds(s) ==
    {Len(s)} \cup (IF s # <<>> /\ s[Len(s)] = "\n" THEN {Len(s) - 1} ELSE {})

----------------------------------------------------------------------------
(* Validators *)

\* re.match(r'^[a-zA-Z0-9._%+-]+@[a-zA-Z0-9.-]+\.[a-zA-Z]{2,}$', email)
validate_email(email) ==
    \E e \in DollarEnds(email) :
      \E at \in 2 .. e : \E dot \in (at + 2) .. (e - 2) :
        /\ AllIn(SubSeq(email, 1, at - 1), EmailLocalChars)
        /\ email[at] = "@"
        /\ AllIn(SubSeq(email, at + 1, dot - 1), EmailDomainChars)
        /\ email[dot] = "."
        /\ AllIn(SubSeq(email, dot + 1, e), Letters)

MsgPwLength == "Password must be at least 8 characters long"
MsgPwUpper == "Password must contain at least one uppercase letter"
MsgPwLower == "Password must contain at least one lowercase letter"
MsgPwDigit == "Password must contain at least one digit"
MsgPwSpecial == "Password must contain at least one special character"
MsgPwValid == "Password is valid"

\* validate_password looking for the special character before the digit
validate_password_special_first(password) ==
    IF Len(password) < MinPasswordLen THEN <<FALSE, MsgPwLength>>
    ELSE IF ~AnyIn(password, UpperCase) THEN <<FALSE, MsgPwUpper>>
    ELSE IF ~AnyIn(password, LowerCase) THEN <<FALSE, MsgPwLower>>
    ELSE IF ~AnyIn(password, SpecialChars) THEN <<FALSE, MsgPwSpecial>>
    ELSE IF ~AnyIn(password, Digits) THEN <<FALSE, MsgPwDigit>>
    ELSE <<TRUE, MsgPwValid>>

validate_password(password) ==
    IF Len(password) < MinPasswordLen THEN <<FALSE, MsgPwLength>>
    ELSE IF ~AnyIn(password, UpperCase) THEN <<FALSE, MsgPwUpper>>
    ELSE IF ~AnyIn(password, LowerCase) THEN <<FALSE, MsgPwLower>>
    ELSE IF ~AnyIn(password, Digits) THEN <<FALSE, MsgPwDigit>>
    ELSE IF ~AnyIn(password, SpecialChars) THEN <<FALSE, MsgPwSpecial>>
    ELSE <<TRUE, MsgPwValid>>

MsgUserLength == "Username must be between 3 and 20 characters"
MsgUserChars == "Username can only contain letters, numbers, and underscores"
MsgUserValid == "Username is valid"

validate_username(username) ==
    IF Len(username) < MinUsernameLen \/ Len(username) > MaxUsernameLen
    THEN <<FALSE, MsgUserLength>>
    ELSE IF ~(\E e \in DollarEnds(username) :
                e >= 1 /\ AllIn(SubSeq(username, 1, e), WordChars))
    THEN <<FALSE, MsgUserChars>>
    ELSE <<TRUE, MsgUserValid>>

----------------------------------------------------------------------------
(* Password hashing (werkzeug.security): a salted one-way digest.  The     *)
(* digest is an injective function of salt and password, kept symbolic.    *)

Digest(salt, password) == <<"pbkdf2", salt, password>>

generate_password_hash(password, salt) ==
    [salt |-> salt, digest |-> Digest(salt, password)]

\* check_password_hash comparing the first MinPasswordLen characters only
check_password_hash_truncating(pwhash, password) ==
    LET head(p) == SubSeq(p, 1, IF Len(p) < MinPasswordLen THEN Len(p)
                                ELSE MinPasswordLen)
    IN  head(pwhash.digest[3]) = head(password)

check_password_hash(pwhash, password) ==
    pwhash.digest = Digest(pwhash.salt, password)

----------------------------------------------------------------------------
(* The store: rows and SQL statements *)

\* fetchone() on an empty result
NoRow == [id |-> 0]

\* SELECT ... FROM users WHERE username = ?  (fetchone: the first match)
SelectByUsername(us, username) ==
    IF \E i \in 1 .. Len(us) : us[i].username = username
    THEN us[CHOOSE i \in 1 .. Len(us) :
               /\ us[i].username = username
               /\ \A j \in 1 .. (i - 1) : us[j].username # username]
    ELSE NoRow

\* the SELECT of register looking at the username only
ExistsUsernameOrEmail_name_only(us, username, email) ==
    \E i \in 1 .. Len(us) : us[i].username = username

\* SELECT id FROM users WHERE username = ? OR email = ?
ExistsUsernameOrEmail(us, username, email) ==
    \E i \in 1 .. Len(us) : us[i].username = username \/ us[i].email = email

\* a users table created without its UNIQUE constraints
ViolatesUnique_none(us, username, email) == FALSE

\* The UNIQUE constraints of the users table (username, email)
ViolatesUnique(us, username, email) ==
    \E i \in 1 .. Len(us) : us[i].username = username \/ us[i].email = email

\* InsertUser with last_login defaulting to the time of the insert
InsertUser_stamped(us, username, email, pwhash, t) ==
    Append(us, [id |-> Len(us) + 1,
                username |-> username,
                email |-> email,
                password_hash |-> pwhash,
                created_at |-> t,
                last_login |-> t,
                failed_login_attempts |-> 0,
                account_locked_until |-> NULL])

\* INSERT INTO users (username, email, password_hash) VALUES (?, ?, ?)
\* with the column defaults of CREATE TABLE users
InsertUser(us, username, email, pwhash, t) ==
    Append(us, [id |-> Len(us) + 1,
                username |-> username,
                email |-> email,
                password_hash |-> pwhash,
                created_at |-> t,
                last_login |-> NULL,
                failed_login_attempts |-> 0,
                account_locked_until |-> NULL])

\* log_login_attempt that keeps the log newest first
log_login_attempt_newest_first(la, username, ip_address, success, t) ==
    <<[id |-> Len(la) + 1,
       username |-> username,
       ip_address |-> ip_address,
       success |-> success,
       timestamp |-> t]>> \o la

\* log_login_attempt that records the failures only
log_login_attempt_failures_only(la, username, ip_address, success, t) ==
    IF success THEN la
    ELSE Append(la, [id |-> Len(la) + 1,
                     username |-> username,
                     ip_address |-> ip_address,
                     success |-> success,
                     timestamp |-> t])

\* INSERT INTO login_attempts (username, ip_address, success) VALUES (?, ?, ?)
log_login_attempt(la, username, ip_address, success, t) ==
    Append(la, [id |-> Len(la) + 1,
                username |-> username,
                ip_address |-> ip_address,
                success |-> success,
                timestamp |-> t])

\* SELECT COUNT(*) as count FROM users
CountUsers(us) == Len(us)

\* SELECT * FROM login_attempts WHERE username = ?
AttemptsOf(la, username) == SelectSeq(la, LAMBDA a : a.username = username)

\* the first n elements of a sequence (LIMIT n)
Limit(s, n) == SubSeq(s, 1, IF Len(s) < n THEN Len(s) ELSE n)

\* ... ORDER BY timestamp DESC LIMIT 10: every result the statement may
\* return.  The rows come by falling timestamp; SQL leaves the order of rows
\* with equal timestamps open, so each such order is a possible result.
SelectAttempts(la, username) ==
    LET rows == AttemptsOf(la, username)
        n == Len(rows)
        orders == {p \in Permutations(1 .. n) :
                     \A i \in 1 .. n : \A j \in (i + 1) .. n :
                         rows[p[i]].timestamp >= rows[p[j]].timestamp}
    IN  {Limit([i \in 1 .. n |-> rows[p[i]]], ListLimit) : p \in orders}

\* LockVerdict with the comparison of the clock and the lock end reversed
LockVerdict_reversed(row, t) ==
    IF row # NoRow /\ row.account_locked_until # NULL
    THEN IF t > row.account_locked_until THEN "locked" ELSE "expired"
    ELSE "open"

\* LockVerdict with the lock still holding at the very minute it ends
LockVerdict_inclusive(row, t) ==
    IF row # NoRow /\ row.account_locked_until # NULL
    THEN IF t <= row.account_locked_until THEN "locked" ELSE "expired"
    ELSE "open"

\* LockVerdict taking a username without a row for locked
LockVerdict_no_row_locked(row, t) ==
    IF row = NoRow THEN "locked"
    ELSE IF row.account_locked_until # NULL
    THEN IF t < row.account_locked_until THEN "locked" ELSE "expired"
    ELSE "open"

\* is_account_locked, the SELECT result against the clock:
\* "locked" (return True), "expired" (run the unlocking UPDATE, return False)
\* or "open" (return False)
LockVerdict(row, t) ==
    IF row # NoRow /\ row.account_locked_until # NULL
    THEN IF t < row.account_locked_until THEN "locked" ELSE "expired"
    ELSE "open"

\* UnlockAccount that forgets the counter
UnlockAccount_lock_only(us, username) ==
    [i \in 1 .. Len(us) |->
        IF us[i].username = username
        THEN [us[i] EXCEPT !.account_locked_until = NULL]
        ELSE us[i]]

\* UnlockAccount that deletes the row of the expired lock
UnlockAccount_deletes(us, username) ==
    SelectSeq(us, LAMBDA row : row.username # username)

\* UnlockAccount that zeroes the counter and leaves the lock timestamp
UnlockAccount_count_only(us, username) ==
    [i \in 1 .. Len(us) |->
        IF us[i].username = username
        THEN [us[i] EXCEPT !.failed_login_attempts = 0]
        ELSE us[i]]

\* UPDATE users SET account_locked_until = NULL, failed_login_attempts = 0
\* WHERE username = ?
UnlockAccount(us, username) ==
    [i \in 1 .. Len(us) |->
        IF us[i].username = username
        THEN [us[i] EXCEPT !.account_locked_until = NULL,
                           !.failed_login_attempts = 0]
        ELSE us[i]]

\* is_account_locked running its UPDATE whenever a lock timestamp is set
is_account_locked_clears_always(us, username, t) ==
    LET verdict == LockVerdict(SelectByUsername(us, username), t)
    IN  [locked |-> verdict = "locked",
         users |-> IF verdict \in {"locked", "expired"}
                   THEN UnlockAccount(us, username) ELSE us]

\* is_account_locked as one uninterrupted call at clock t: the value
\* returned and the users table it leaves
is_account_locked(us, username, t) ==
    LET verdict == LockVerdict(SelectByUsername(us, username), t)
    IN  [locked |-> verdict = "locked",
         users |-> IF verdict = "expired"
                   THEN UnlockAccount(us, username) ELSE us]

\* increment_failed_login whose UPDATE statements name no username
increment_failed_login_all_rows(us, username, t) ==
    LET bumped == [i \in 1 .. Len(us) |->
                     [us[i] EXCEPT !.failed_login_attempts = @ + 1]]
    IN  [i \in 1 .. Len(bumped) |->
           IF bumped[i].failed_login_attempts >= LockThreshold
           THEN [bumped[i] EXCEPT !.account_locked_until = t + LockMinutes]
           ELSE bumped[i]]

\* increment_failed_login that locks one failure early
increment_failed_login_early(us, username, t) ==
    LET bumped == [i \in 1 .. Len(us) |->
                     IF us[i].username = username
                     THEN [us[i] EXCEPT !.failed_login_attempts = @ + 1]
                     ELSE us[i]]
    IN  [i \in 1 .. Len(bumped) |->
           IF /\ bumped[i].username = username
              /\ bumped[i].failed_login_attempts >= LockThreshold - 1
           THEN [bumped[i] EXCEPT !.account_locked_until = t + LockMinutes]
           ELSE bumped[i]]

\* increment_failed_login locking one failure late (> instead of >=)
increment_failed_login_late(us, username, t) ==
    LET bumped == [i \in 1 .. Len(us) |->
                     IF us[i].username = username
                     THEN [us[i] EXCEPT !.failed_login_attempts = @ + 1]
                     ELSE us[i]]
    IN  [i \in 1 .. Len(bumped) |->
           IF /\ bumped[i].username = username
              /\ bumped[i].failed_login_attempts > LockThreshold
           THEN [bumped[i] EXCEPT !.account_locked_until = t + LockMinutes]
           ELSE bumped[i]]

\* increment_failed_login: one transaction
increment_failed_login(us, username, t) ==
    LET bumped == [i \in 1 .. Len(us) |->
                     IF us[i].username = username
                     THEN [us[i] EXCEPT !.failed_login_attempts = @ + 1]
                     ELSE us[i]]
        user == SelectByUsername(bumped, username)
    IN  IF user # NoRow /\ user.failed_login_attempts >= LockThreshold
        THEN [i \in 1 .. Len(bumped) |->
                IF bumped[i].username = username
                THEN [bumped[i] EXCEPT !.account_locked_until = t + LockMinutes]
                ELSE bumped[i]]
        ELSE bumped

\* the failed_login_attempts of the account of that username (NULL: none)
FailedCount(us, username) ==
    IF SelectByUsername(us, username) = NoRow THEN NULL
    ELSE SelectByUsername(us, username).failed_login_attempts

\* the account_locked_until of the account of that username (NULL: none)
LockedUntil(us, username) ==
    IF SelectByUsername(us, username) = NoRow THEN NULL
    ELSE SelectByUsername(us, username).account_locked_until

\* reset_failed_login whose UPDATE names no username
reset_failed_login_all_rows(us, username, t) ==
    [i \in 1 .. Len(us) |->
        [us[i] EXCEPT !.failed_login_attempts = 0,
                      !.account_locked_until = NULL,
                      !.last_login = t]]

\* reset_failed_login that keeps the counter
reset_failed_login_keeps_count(us, username, t) ==
    [i \in 1 .. Len(us) |->
        IF us[i].username = username
        THEN [us[i] EXCEPT !.account_locked_until = NULL, !.last_login = t]
        ELSE us[i]]

\* reset_failed_login that records the login time and nothing else
reset_failed_login_timestamp_only(us, username, t) ==
    [i \in 1 .. Len(us) |->
        IF us[i].username = username
        THEN [us[i] EXCEPT !.last_login = t]
        ELSE us[i]]

\* reset_failed_login
reset_failed_login(us, username, t) ==
    [i \in 1 .. Len(us) |->
        IF us[i].username = username
        THEN [us[i] EXCEPT !.failed_login_attempts = 0,
                           !.account_locked_until = NULL,
                           !.last_login = t]
        ELSE us[i]]

----------------------------------------------------------------------------
(* Requests *)

\* an empty session cookie: a dict with no keys
EmptySession == [k \in {} |-> NULL]

\* request.remote_addr
RemoteAddr == "127.0.0.1"

NoText == <<>>

\* A request: the form data, the handler's local `row`, the response (flash
\* message, page or redirect, and the records it carries), and seven history
\* fields that the handlers never read: `start` (clock at the start), `pre`
\* (the account of that username at the start), `checked` (clock at the lock
\* check), `base` (the account's counter right after the lock check),
\* `dupname` / `dupmail` (an account with the username / the email of this
\* registration stood when the request started), and `faults` (the functions
\* of this call in which a statement raised sqlite3.Error).
IdleReq == [op |-> "none", username |-> NoText, email |-> NoText,
            password |-> NoText, confirm |-> NoText, row |-> NoRow,
            flash |-> "", resp |-> "", body |-> <<>>,
            start |-> NULL, pre |-> NoRow, checked |-> NULL, base |-> NULL,
            dupname |-> FALSE, dupmail |-> FALSE, faults |-> {}]

MsgAllRequired == "All fields are required"
MsgInvalidEmail == "Invalid email format"
MsgMismatch == "Passwords do not match"
MsgDuplicate == "Username or email already exists"
MsgRegistered == "Registration successful! Please log in."
MsgRegFailed == "Registration failed. Please try again."
MsgCredsRequired == "Username and password are required"
MsgLocked == "Account is temporarily locked due to multiple failed login attempts. Please try again later."
MsgLoginOk == "Login successful!"
MsgInvalidLogin == "Invalid username or password"
MsgLoginFailed == "Login failed. Please try again."
MsgLoggedOut == "You have been logged out successfully"

\* The outcome kind a response stands for
Outcome(r) ==
    CASE r.flash = MsgLoginOk -> "Success"
      [] r.flash = MsgInvalidLogin -> "InvalidCredentials"
      [] r.flash = MsgLocked -> "Locked"
      [] r.flash = MsgCredsRequired -> "MissingCredentials"
      [] r.flash = MsgRegistered -> "Registered"
      [] r.flash = MsgAllRequired -> "MissingField"
      [] r.flash \in {MsgUserLength, MsgUserChars} -> "InvalidUsername"
      [] r.flash = MsgInvalidEmail -> "InvalidEmail"
      [] r.flash \in {MsgPwLength, MsgPwUpper, MsgPwLower, MsgPwDigit,
                      MsgPwSpecial} -> "InvalidPassword"
      [] r.flash = MsgMismatch -> "PasswordMismatch"
      [] r.flash = MsgDuplicate -> "Conflict"
      [] r.flash \in {MsgRegFailed, MsgLoginFailed} -> "StorageError"
      [] OTHER -> "none"

\* the response is written: flash(...) and return
Respond(c, flash, resp) ==
    /\ req' = [req EXCEPT ![c].flash = flash, ![c].resp = resp]
    /\ pc' = [pc EXCEPT ![c] = "done"]

\* a login call completes: the same, and the call enters the history
RespondLogin(c, flash, resp) ==
    /\ Respond(c, flash, resp)
    /\ hist' = Append(hist, [username |-> req[c].username,
                             known |-> req[c].pre # NoRow,
                             outcome |-> Outcome([flash |-> flash]),
                             start |-> req[c].start,
                             checked |-> req[c].checked,
                             base |-> req[c].base,
                             at |-> now])

\* RegisterValidation with the email checked before the username
RegisterValidation_email_first(username, email, password, confirm) ==
    IF username = NoText \/ email = NoText \/ password = NoText
    THEN MsgAllRequired
    ELSE IF ~validate_email(email) THEN MsgInvalidEmail
    ELSE IF ~validate_username(username)[1] THEN validate_username(username)[2]
    ELSE IF ~validate_password(password)[1] THEN validate_password(password)[2]
    ELSE IF password # confirm THEN MsgMismatch
    ELSE ""

\* RegisterValidation without the confirmation check
RegisterValidation_no_confirm(username, email, password, confirm) ==
    IF username = NoText \/ email = NoText \/ password = NoText
    THEN MsgAllRequired
    ELSE IF ~validate_username(username)[1] THEN validate_username(username)[2]
    ELSE IF ~validate_email(email) THEN MsgInvalidEmail
    ELSE IF ~validate_password(password)[1] THEN validate_password(password)[2]
    ELSE ""

\* The validation chain of register: the first failing check's message,
\* "" when all pass.
RegisterValidation(username, email, password, confirm) ==
    IF username = NoText \/ email = NoText \/ password = NoText
    THEN MsgAllRequired
    ELSE IF ~validate_username(username)[1] THEN validate_username(username)[2]
    ELSE IF ~validate_email(email) THEN MsgInvalidEmail
    ELSE IF ~validate_password(password)[1] THEN validate_password(password)[2]
    ELSE IF password # confirm THEN MsgMismatch
    ELSE ""

\* POST /register: form parsing and input validation
StartRegister(c, form) ==
    LET username == Strip(form.username)
        email == Strip(form.email)
        msg == RegisterValidation(username, email, form.password, form.confirm)
        r == [IdleReq EXCEPT !.op = "register", !.username = username,
                             !.email = email,
                             !.password = form.password,
                             !.confirm = form.confirm,
                             !.start = now,
                             !.dupname = (\E i \in 1 .. Len(users) :
                                             users[i].username = username),
                             !.dupmail = (\E i \in 1 .. Len(users) :
                                             users[i].email = email)]
    IN  /\ pc[c] = "idle"
        /\ nreq' = nreq + 1
        /\ IF msg # ""
           THEN /\ req' = [req EXCEPT ![c] =
                     [r EXCEPT !.flash = msg, !.resp = "register.html"]]
                /\ pc' = [pc EXCEPT ![c] = "done"]
           ELSE /\ req' = [req EXCEPT ![c] = r]
                /\ pc' = [pc EXCEPT ![c] = "reg_select"]
        /\ UNCHANGED <<users, login_attempts, now, session, hist>>

\* register: SELECT id FROM users WHERE username = ? OR email = ?
RegSelect(c) ==
    /\ pc[c] = "reg_select"
    /\ IF ExistsUsernameOrEmail(users, req[c].username, req[c].email)
       THEN Respond(c, MsgDuplicate, "register.html")
       ELSE /\ pc' = [pc EXCEPT ![c] = "reg_insert"]
            /\ req' = req
    /\ UNCHANGED <<users, login_attempts, now, session, hist, nreq>>

\* register: generate_password_hash, INSERT INTO users, commit; an
\* sqlite3.IntegrityError from a UNIQUE constraint is an sqlite3.Error
RegInsert(c, salt) ==
    /\ pc[c] = "reg_insert"
    /\ IF ViolatesUnique(users, req[c].username, req[c].email)
       THEN /\ Respond(c, MsgRegFailed, "register.html")
            /\ users' = users
       ELSE /\ users' = InsertUser(users, req[c].username, req[c].email,
                           generate_password_hash(req[c].password, salt), now)
            /\ Respond(c, MsgRegistered, "redirect:login")
    /\ UNCHANGED <<login_attempts, now, session, hist, nreq>>

\* CredentialsMissing checking the username only
CredentialsMissing_username_only(username, password) == username = NoText

\* login: not username or not password
CredentialsMissing(username, password) ==
    username = NoText \/ password = NoText

\* POST /login: form parsing and the presence check
StartLogin(c, form) ==
    LET username == Strip(form.username)
        r == [IdleReq EXCEPT !.op = "login", !.username = username,
                             !.password = form.password,
                             !.start = now,
                             !.pre = SelectByUsername(users, username)]
    IN  /\ pc[c] = "idle"
        /\ nreq' = nreq + 1
        /\ IF CredentialsMissing(username, form.password)
           THEN /\ req' = [req EXCEPT ![c] =
                     [r EXCEPT !.flash = MsgCredsRequired, !.resp = "login.html"]]
                /\ pc' = [pc EXCEPT ![c] = "done"]
                /\ hist' = Append(hist, [username |-> username,
                                         known |-> r.pre # NoRow,
                                         outcome |-> "MissingCredentials",
                                         start |-> now,
                                         checked |-> NULL,
                                         base |-> NULL,
                                         at |-> now])
           ELSE /\ req' = [req EXCEPT ![c] = r]
                /\ pc' = [pc EXCEPT ![c] = "lock_select"]
                /\ hist' = hist
        /\ UNCHANGED <<users, login_attempts, now, session>>

\* is_account_locked: SELECT failed_login_attempts, account_locked_until
LockSelect(c) ==
    /\ pc[c] = "lock_select"
    /\ req' = [req EXCEPT ![c].row = SelectByUsername(users, req[c].username)]
    /\ pc' = [pc EXCEPT ![c] = "lock_check"]
    /\ UNCHANGED <<users, login_attempts, now, session, hist, nreq>>

\* is_account_locked: datetime.now() against the row read, and the UPDATE
\* that unlocks an account whose lock period has expired
LockCheck(c) ==
    /\ pc[c] = "lock_check"
    /\ LET verdict == LockVerdict(req[c].row, now)
       IN  /\ users' = IF verdict = "expired"
                       THEN UnlockAccount(users, req[c].username)
                       ELSE users
           /\ pc' = [pc EXCEPT ![c] =
                        IF verdict = "locked" THEN "locked_log" ELSE "lookup"]
           /\ req' = [req EXCEPT ![c].row = NoRow,
                                 ![c].checked = now,
                                 ![c].base = FailedCount(users', req[c].username)]
    /\ UNCHANGED <<login_attempts, now, session, hist, nreq>>

\* login, account locked: log_login_attempt(username, ip_address, False)
LockedLog(c) ==
    /\ pc[c] = "locked_log"
    /\ login_attempts' = log_login_attempt(login_attempts, req[c].username,
                                           RemoteAddr, FALSE, now)
    /\ RespondLogin(c, MsgLocked, "login.html")
    /\ UNCHANGED <<users, now, session, nreq>>

\* login: SELECT id, username, password_hash; check_password_hash; on a
\* match the session is filled
Lookup(c) ==
    /\ pc[c] = "lookup"
    /\ LET user == SelectByUsername(users, req[c].username)
       IN  IF user # NoRow /\ check_password_hash(user.password_hash,
                                                  req[c].password)
           THEN /\ session' = [session EXCEPT ![c] =
                       [user_id |-> user.id, username |-> user.username]]
                /\ pc' = [pc EXCEPT ![c] = "success_reset"]
           ELSE /\ session' = session
                /\ pc' = [pc EXCEPT ![c] = "fail_incr"]
    /\ UNCHANGED <<users, login_attempts, now, req, hist, nreq>>

\* login, match: reset_failed_login(username)
SuccessReset(c) ==
    /\ pc[c] = "success_reset"
    /\ users' = reset_failed_login(users, req[c].username, now)
    /\ pc' = [pc EXCEPT ![c] = "success_log"]
    /\ UNCHANGED <<login_attempts, now, session, req, hist, nreq>>

\* login, match: log_login_attempt(username, ip_address, True), redirect
SuccessLog(c) ==
    /\ pc[c] = "success_log"
    /\ login_attempts' = log_login_attempt(login_attempts, req[c].username,
                                           RemoteAddr, TRUE, now)
    /\ RespondLogin(c, MsgLoginOk, "redirect:dashboard")
    /\ UNCHANGED <<users, now, session, nreq>>

\* login, no match: increment_failed_login(username)
FailIncr(c) ==
    /\ pc[c] = "fail_incr"
    /\ users' = increment_failed_login(users, req[c].username, now)
    /\ pc' = [pc EXCEPT ![c] = "fail_log"]
    /\ UNCHANGED <<login_attempts, now, session, req, hist, nreq>>

\* FailLog with a message of its own for a username without account
FailLog_reveals(c) ==
    /\ pc[c] = "fail_log"
    /\ login_attempts' = log_login_attempt(login_attempts, req[c].username,
                                           RemoteAddr, FALSE, now)
    /\ RespondLogin(c, IF SelectByUsername(users, req[c].username) = NoRow
                       THEN "No such user" ELSE MsgInvalidLogin, "login.html")
    /\ UNCHANGED <<users, now, session, nreq>>

\* login, no match: log_login_attempt(username, ip_address, False)
FailLog(c) ==
    /\ pc[c] = "fail_log"
    /\ login_attempts' = log_login_attempt(login_attempts, req[c].username,
                                           RemoteAddr, FALSE, now)
    /\ RespondLogin(c, MsgInvalidLogin, "login.html")
    /\ UNCHANGED <<users, now, session, nreq>>

\* is_account_locked, the SELECT raises: the except branch logs the error
\* and returns False
LockSelectFails(c) ==
    /\ pc[c] = "lock_select"
    /\ pc' = [pc EXCEPT ![c] = "lookup"]
    /\ req' = [req EXCEPT ![c].checked = now,
                          ![c].base = FailedCount(users, req[c].username),
                          ![c].faults = @ \cup {"is_account_locked"}]
    /\ UNCHANGED <<users, login_attempts, now, session, hist, nreq>>

\* is_account_locked, the unlocking UPDATE of an expired lock raises: the
\* except branch logs the error and returns False
LockUnlockFails(c) ==
    /\ pc[c] = "lock_check"
    /\ LockVerdict(req[c].row, now) = "expired"
    /\ pc' = [pc EXCEPT ![c] = "lookup"]
    /\ req' = [req EXCEPT ![c].row = NoRow,
                          ![c].checked = now,
                          ![c].base = FailedCount(users, req[c].username),
                          ![c].faults = @ \cup {"is_account_locked"}]
    /\ UNCHANGED <<users, login_attempts, now, session, hist, nreq>>

\* a login call completes with a response after a statement of function fn
\* raised sqlite3.Error and left the log as it was
RespondFaulted(c, flash, resp, fn) ==
    /\ req' = [req EXCEPT ![c].flash = flash, ![c].resp = resp,
                          ![c].faults = @ \cup {fn}]
    /\ pc' = [pc EXCEPT ![c] = "done"]
    /\ hist' = Append(hist, [username |-> req[c].username,
                             known |-> req[c].pre # NoRow,
                             outcome |-> Outcome([flash |-> flash]),
                             start |-> req[c].start,
                             checked |-> req[c].checked,
                             base |-> req[c].base,
                             at |-> now])

\* login, the account SELECT raises: except sqlite3.Error answers 'Login
\* failed. Please try again.'; no attempt is logged
LookupFails(c) ==
    /\ pc[c] = "lookup"
    /\ RespondFaulted(c, MsgLoginFailed, "login.html", "login")
    /\ UNCHANGED <<users, login_attempts, now, session, nreq>>

\* reset_failed_login, the UPDATE raises: the except branch logs the error
SuccessResetFails(c) ==
    /\ pc[c] = "success_reset"
    /\ pc' = [pc EXCEPT ![c] = "success_log"]
    /\ req' = [req EXCEPT ![c].faults = @ \cup {"reset_failed_login"}]
    /\ UNCHANGED <<users, login_attempts, now, session, hist, nreq>>

\* increment_failed_login, a statement of the transaction raises: nothing
\* is committed and the except branch logs the error
FailIncrFails(c) ==
    /\ pc[c] = "fail_incr"
    /\ pc' = [pc EXCEPT ![c] = "fail_log"]
    /\ req' = [req EXCEPT ![c].faults = @ \cup {"increment_failed_login"}]
    /\ UNCHANGED <<users, login_attempts, now, session, hist, nreq>>

\* login, account locked: the INSERT of log_login_attempt raises
LockedLogFails(c) ==
    /\ pc[c] = "locked_log"
    /\ RespondFaulted(c, MsgLocked, "login.html", "log_login_attempt")
    /\ UNCHANGED <<users, login_attempts, now, session, nreq>>

\* login, match: the INSERT of log_login_attempt raises
SuccessLogFails(c) ==
    /\ pc[c] = "success_log"
    /\ RespondFaulted(c, MsgLoginOk, "redirect:dashboard", "log_login_attempt")
    /\ UNCHANGED <<users, login_attempts, now, session, nreq>>

\* FailLogFails with the sqlite3.Error of the INSERT reaching the except
\* branch of login
FailLogFails_propagates(c) ==
    /\ pc[c] = "fail_log"
    /\ RespondFaulted(c, MsgLoginFailed, "login.html", "log_login_attempt")
    /\ UNCHANGED <<users, login_attempts, now, session, nreq>>

\* login, no match: the INSERT of log_login_attempt raises
FailLogFails(c) ==
    /\ pc[c] = "fail_log"
    /\ RespondFaulted(c, MsgInvalidLogin, "login.html", "log_login_attempt")
    /\ UNCHANGED <<users, login_attempts, now, session, nreq>>

\* Python's str(bool)
BoolText(b) == IF b THEN "True" ELSE "False"

\* a direct call validate_email(text); the value returned is the response
CallValidateEmail(c, text) ==
    /\ pc[c] = "idle"
    /\ nreq' = nreq + 1
    /\ req' = [req EXCEPT ![c] =
          [IdleReq EXCEPT !.op = "validate_email", !.email = text,
                          !.resp = BoolText(validate_email(text))]]
    /\ pc' = [pc EXCEPT ![c] = "done"]
    /\ UNCHANGED <<users, login_attempts, now, session, hist>>

\* a direct call validate_password(text); the pair returned is the response
CallValidatePassword(c, text) ==
    /\ pc[c] = "idle"
    /\ nreq' = nreq + 1
    /\ req' = [req EXCEPT ![c] =
          [IdleReq EXCEPT !.op = "validate_password", !.password = text,
                          !.resp = BoolText(validate_password(text)[1]),
                          !.flash = validate_password(text)[2]]]
    /\ pc' = [pc EXCEPT ![c] = "done"]
    /\ UNCHANGED <<users, login_attempts, now, session, hist>>

\* a direct call validate_username(text); the pair returned is the response
CallValidateUsername(c, text) ==
    /\ pc[c] = "idle"
    /\ nreq' = nreq + 1
    /\ req' = [req EXCEPT ![c] =
          [IdleReq EXCEPT !.op = "validate_username", !.username = text,
                          !.resp = BoolText(validate_username(text)[1]),
                          !.flash = validate_username(text)[2]]]
    /\ pc' = [pc EXCEPT ![c] = "done"]
    /\ UNCHANGED <<users, login_attempts, now, session, hist>>

\* the response has been delivered; the client may send its next request
Finish(c) ==
    /\ pc[c] = "done"
    /\ pc' = [pc EXCEPT ![c] = "idle"]
    /\ req' = [req EXCEPT ![c] = IdleReq]
    /\ UNCHANGED <<users, login_attempts, now, session, hist, nreq>>

\* Dashboard without require_login
Dashboard_unprotected(c) ==
    /\ pc[c] = "idle"
    /\ nreq' = nreq + 1
    /\ req' = [req EXCEPT ![c] =
          [IdleReq EXCEPT !.op = "dashboard", !.resp = "dashboard.html",
                          !.body = <<[username |->
                                        IF "username" \in DOMAIN session[c]
                                        THEN session[c].username ELSE NoText]>>,
                          !.start = now]]
    /\ pc' = [pc EXCEPT ![c] = "done"]
    /\ UNCHANGED <<users, login_attempts, now, session, hist>>

\* GET /dashboard behind require_login: without 'user_id' in the session the
\* client is sent to the login page
Dashboard(c) ==
    /\ pc[c] = "idle"
    /\ nreq' = nreq + 1
    /\ req' = [req EXCEPT ![c] =
          IF "user_id" \in DOMAIN session[c]
          THEN [IdleReq EXCEPT !.op = "dashboard", !.resp = "dashboard.html",
                               !.body = <<[username |-> session[c].username]>>, !.start = now]
          ELSE [IdleReq EXCEPT !.op = "dashboard", !.resp = "redirect:login",
                               !.start = now]]
    /\ pc' = [pc EXCEPT ![c] = "done"]
    /\ UNCHANGED <<users, login_attempts, now, session, hist>>

\* Logout that leaves the session as it is
Logout_keeps_session(c) ==
    /\ pc[c] = "idle"
    /\ nreq' = nreq + 1
    /\ req' = [req EXCEPT ![c] =
          [IdleReq EXCEPT !.op = "logout", !.flash = MsgLoggedOut,
                          !.resp = "redirect:index", !.start = now]]
    /\ pc' = [pc EXCEPT ![c] = "done"]
    /\ UNCHANGED <<users, login_attempts, now, session, hist>>

\* GET /logout: session.clear()
Logout(c) ==
    /\ pc[c] = "idle"
    /\ nreq' = nreq + 1
    /\ session' = [session EXCEPT ![c] = EmptySession]
    /\ req' = [req EXCEPT ![c] =
          [IdleReq EXCEPT !.op = "logout", !.flash = MsgLoggedOut,
                          !.resp = "redirect:index", !.start = now]]
    /\ pc' = [pc EXCEPT ![c] = "done"]
    /\ UNCHANGED <<users, login_attempts, now, hist>>

\* GET /api/users/count
UserCount(c) ==
    /\ pc[c] = "idle"
    /\ nreq' = nreq + 1
    /\ req' = [req EXCEPT ![c] =
          [IdleReq EXCEPT !.op = "user_count", !.resp = "json",
                          !.body = <<[user_count |-> CountUsers(users)]>>, !.start = now]]
    /\ pc' = [pc EXCEPT ![c] = "done"]
    /\ UNCHANGED <<users, login_attempts, now, session, hist>>

\* GET /api/login-attempts/<username>; the username is the path segment as
\* given
GetLoginAttempts(c, username) ==
    /\ pc[c] = "idle"
    /\ nreq' = nreq + 1
    /\ \E attempts \in SelectAttempts(login_attempts, username) :
          req' = [req EXCEPT ![c] =
            [IdleReq EXCEPT !.op = "login_attempts", !.username = username,
                            !.resp = "json", !.body = attempts, !.start = now]]
    /\ pc' = [pc EXCEPT ![c] = "done"]
    /\ UNCHANGED <<users, login_attempts, now, session, hist>>

\* time passes
Tick ==
    /\ now + TickMinutes <= MaxClock
    /\ now' = now + TickMinutes
    /\ UNCHANGED <<users, login_attempts, session, pc, req, hist, nreq>>

\* the steps of a registration in flight
RegStep(c) ==
    \/ RegSelect(c)
    \/ \E salt \in Salts : RegInsert(c, salt)
    \/ Finish(c)

\* the steps of a login in flight
LoginStep(c) ==
    \/ LockSelect(c)
    \/ LockCheck(c)
    \/ LockedLog(c)
    \/ Lookup(c)
    \/ SuccessReset(c)
    \/ SuccessLog(c)
    \/ FailIncr(c)
    \/ FailLog(c)
    \/ Finish(c)

\* the steps of a login in which a statement raises sqlite3.Error
FaultStep(c) ==
    \/ LockSelectFails(c)
    \/ LockUnlockFails(c)
    \/ LookupFails(c)
    \/ SuccessResetFails(c)
    \/ FailIncrFails(c)
    \/ LockedLogFails(c)
    \/ SuccessLogFails(c)
    \/ FailLogFails(c)

----------------------------------------------------------------------------
(* Inputs *)

Alice == <<"a","l","i","c","e">>
Bob == <<"b","o","b">>
\* "Abc12345!"
GoodPw == <<"A","b","c","1","2","3","4","5","!">>
\* "Xyz98765?"
OtherPw == <<"X","y","z","9","8","7","6","5","?">>
\* "Abc12345! "
PaddedPw == <<"A","b","c","1","2","3","4","5","!"," ">>
\* "wrong"
WrongPw == <<"w","r","o","n","g">>
\* "a@x.io"
MailA == <<"a","@","x",".","i","o">>
\* "b@x.io"
MailB == <<"b","@","x",".","i","o">>

\* a username with no account
Ghost == <<"g","h","o","s","t">>
\* " alice ": stripped to alice
AlicePadded == <<" ","a","l","i","c","e"," ">>
\* whitespace only
Blank == <<" "," ">>
\* "ab": too short
ShortName == <<"a","b">>
\* "a-b": a character outside the class
DashName == <<"a","-","b">>
\* "bad": no @
BadMail == <<"b","a","d">>
\* "weak"
WeakPw == <<"w","e","a","k">>

RegForm(u, e, p, cf) == [username |-> u, email |-> e, password |-> p, confirm |-> cf]
LoginForm(u, p) == [username |-> u, password |-> p]

----------------------------------------------------------------------------
(* Spec: one client, requests one after another, from the empty database   *)
(* that init_db() creates; time passes between requests.                   *)

SeqRegForms == {RegForm(Alice, MailA, GoodPw, GoodPw)}
SeqLoginForms == {LoginForm(Alice, GoodPw), LoginForm(Alice, WrongPw)}

Init ==
    /\ users = <<>>
    /\ login_attempts = <<>>
    /\ now = 0
    /\ session = [c \in Clients |-> EmptySession]
    /\ pc = [c \in Clients |-> "idle"]
    /\ req = [c \in Clients |-> IdleReq]
    /\ hist = <<>>
    /\ nreq = 0

\* time passes between requests
IdleTick == (\A c \in Clients : pc[c] = "idle") /\ Tick

SeqRegister == nreq < MaxRequests /\ \E f \in SeqRegForms : StartRegister(1, f)
SeqLogin == nreq < MaxRequests /\ \E f \in SeqLoginForms : StartLogin(1, f)

Next ==
    \/ SeqRegister
    \/ SeqLogin
    \/ RegSelect(1)
    \/ \E salt \in Salts : RegInsert(1, salt)
    \/ LoginStep(1)
    \/ IdleTick

Spec == Init /\ [][Next]_vars

----------------------------------------------------------------------------
(* SpecConc: the clients' logins interleave statement by statement, and    *)
(* a lock period may pass at any point.  A behaviour starts in the state   *)
(* the application is in after alice has registered and then failed to log *)
(* in k times in a row, all within the minute 0, 0 <= k <= LockThreshold:  *)
(* the store, the log and the history are those that k runs of the failed  *)
(* login path produce.                                                     *)

RECURSIVE FailedLogins(_, _)
\* <<users, login_attempts, hist>> after k failed logins of u on the store us
FailedLogins(st, k) ==
    IF k = 0 THEN st
    ELSE LET before == FailedLogins(st, k - 1)
             u == before[1][1].username
         IN  << increment_failed_login(before[1], u, 0),
                log_login_attempt(before[2], u, RemoteAddr, FALSE, 0),
                Append(before[3], [username |-> u, known |-> TRUE,
                                   outcome |-> "InvalidCredentials",
                                   start |-> 0, checked |-> 0,
                                   base |-> FailedCount(before[1], u),
                                   at |-> 0]) >>

Registered ==
    << InsertUser(<<>>, Alice, MailA, generate_password_hash(GoodPw, 1), 0),
       <<>>, <<>> >>

ConcInit ==
    \E k \in 0 .. LockThreshold :
        /\ users = FailedLogins(Registered, k)[1]
        /\ login_attempts = FailedLogins(Registered, k)[2]
        /\ hist = FailedLogins(Registered, k)[3]
        /\ now = 0
        /\ session = [c \in Clients |-> EmptySession]
        /\ pc = [c \in Clients |-> "idle"]
        /\ req = [c \in Clients |-> IdleReq]
        /\ nreq = 0

ConcLogin(c) == nreq < MaxConcRequests /\ \E f \in SeqLoginForms : StartLogin(c, f)

\* a whole lock period passes, whatever the requests in flight
LockPeriodPasses ==
    /\ now + LockMinutes <= MaxClock
    /\ now' = now + LockMinutes
    /\ UNCHANGED <<users, login_attempts, session, pc, req, hist, nreq>>

ConcNext ==
    \/ \E c \in Clients : ConcLogin(c)
    \/ \E c \in Clients : LoginStep(c)
    \/ LockPeriodPasses

SpecConc == ConcInit /\ [][ConcNext]_vars

----------------------------------------------------------------------------
(* SpecReg: the clients' registrations interleave statement by statement,  *)
(* from the empty database; time passes between requests.                  *)

RegForms == {RegForm(u, e, GoodPw, GoodPw) : u \in {Alice, Bob}, e \in {MailA, MailB}}

RegRegister(c) == nreq < MaxRegRequests /\ \E f \in RegForms : StartRegister(c, f)

RegNext ==
    \/ \E c \in Clients : RegRegister(c)
    \/ \E c \in Clients : RegStep(c)
    \/ IdleTick

SpecReg == Init /\ [][RegNext]_vars

----------------------------------------------------------------------------
(* SpecForms: registrations and user counts from the empty database; the   *)
(* clients' requests interleave statement by statement.  Client 1 submits  *)
(* well-formed and ill-formed forms, the other clients well-formed ones.   *)

FormUsernames == {Alice, Bob, AlicePadded, NoText, Blank, ShortName, DashName}
FormEmails == {MailA, MailB, NoText, BadMail}
FormPasswords == {GoodPw, NoText, WeakPw}
FormConfirms == {GoodPw, NoText, WeakPw}

AllForms ==
    {RegForm(u, e, p, cf) : u \in FormUsernames, e \in FormEmails,
                            p \in FormPasswords, cf \in FormConfirms}

FormRegister(c) ==
    /\ nreq < MaxFormRequests
    /\ \E f \in (IF c = 1 THEN AllForms ELSE RegForms) : StartRegister(c, f)

FormUserCount(c) == nreq < MaxFormRequests /\ UserCount(c)

FormNext ==
    \/ \E c \in Clients : FormRegister(c)
    \/ \E c \in Clients : FormUserCount(c)
    \/ \E c \in Clients : RegStep(c)

SpecForms == Init /\ [][FormNext]_vars

----------------------------------------------------------------------------
(* SpecLogin: logins with known and unknown usernames, right and wrong and *)
(* missing credentials; the clients' requests interleave statement by      *)
(* statement and a lock period may pass between requests.  Client 1        *)
(* submits every form, the other clients wrong passwords for alice and for *)
(* the unknown username ghost.  A behaviour starts in the state the        *)
(* application is in after alice has registered and k rounds of two failed *)
(* logins, one for alice and one for ghost, have been served in the minute *)
(* 0, 0 <= k <= LockThreshold.                                             *)

\* <<users, login_attempts, hist>> after one more failed login of username u
FailedLogin(st, u) ==
    << increment_failed_login(st[1], u, 0),
       log_login_attempt(st[2], u, RemoteAddr, FALSE, 0),
       Append(st[3], [username |-> u,
                      known |-> SelectByUsername(st[1], u) # NoRow,
                      outcome |-> "InvalidCredentials",
                      start |-> 0, checked |-> 0,
                      base |-> FailedCount(st[1], u),
                      at |-> 0]) >>

RECURSIVE ProbeRounds(_, _)
ProbeRounds(st, k) ==
    IF k = 0 THEN st
    ELSE FailedLogin(FailedLogin(ProbeRounds(st, k - 1), Alice), Ghost)

LoginForms ==
    {LoginForm(u, p) : u \in {Alice, Ghost}, p \in {GoodPw, WrongPw, NoText}}
      \cup {LoginForm(Blank, GoodPw), LoginForm(NoText, WrongPw),
             LoginForm(AlicePadded, WrongPw)}

LoginInit ==
    \E k \in 0 .. LockThreshold :
        /\ users = ProbeRounds(Registered, k)[1]
        /\ login_attempts = ProbeRounds(Registered, k)[2]
        /\ hist = ProbeRounds(Registered, k)[3]
        /\ now = 0
        /\ session = [c \in Clients |-> EmptySession]
        /\ pc = [c \in Clients |-> "idle"]
        /\ req = [c \in Clients |-> IdleReq]
        /\ nreq = 0

ProbeForms == {LoginForm(Alice, WrongPw), LoginForm(Ghost, WrongPw)}

AnyLogin(c) ==
    /\ nreq < MaxLoginRequests
    /\ \E f \in (IF c = 1 THEN LoginForms ELSE ProbeForms) : StartLogin(c, f)

\* a lock period passes between requests
IdleLockPeriod == (\A c \in Clients : pc[c] = "idle") /\ LockPeriodPasses

LoginNext ==
    \/ \E c \in Clients : AnyLogin(c)
    \/ \E c \in Clients : LoginStep(c)
    \/ IdleLockPeriod

SpecLogin == LoginInit /\ [][LoginNext]_vars

----------------------------------------------------------------------------
(* SpecProbe: the clients submit the password "wrong", which is the        *)
(* password of no account, for alice and for the unknown username ghost;   *)
(* the requests interleave statement by statement and a lock period may    *)
(* pass between requests.  A behaviour starts as in SpecLogin.             *)

ProbeLogin(c) == nreq < MaxProbeRequests /\ \E f \in ProbeForms : StartLogin(c, f)

\* the steps of a login with a wrong password
ProbeStep(c) ==
    \/ LockSelect(c)
    \/ LockCheck(c)
    \/ LockedLog(c)
    \/ Lookup(c)
    \/ FailIncr(c)
    \/ FailLog(c)
    \/ Finish(c)

ProbeNext ==
    \/ \E c \in Clients : ProbeLogin(c)
    \/ \E c \in Clients : ProbeStep(c)
    \/ IdleLockPeriod

SpecProbe == LoginInit /\ [][ProbeNext]_vars

----------------------------------------------------------------------------
(* SpecAll: every operation of the application (register, login with its   *)
(* lock check, dashboard, logout, user count, login-attempt list); the     *)
(* clients' requests interleave statement by statement and time passes     *)
(* between requests.  Client 1 calls every operation, the other clients    *)
(* log in.  A behaviour starts in the state the application is in after    *)
(* alice has registered, or after that and LockThreshold rounds of two     *)
(* failed logins, one for alice and one for the unknown username ghost,    *)
(* served in the minute 0.                                                 *)

AllRegForms == {RegForm(Alice, MailB, GoodPw, GoodPw), RegForm(Bob, MailB, GoodPw, GoodPw)}
AllLoginForms == {LoginForm(Alice, GoodPw), LoginForm(Alice, WrongPw), LoginForm(Ghost, WrongPw)}
AllListNames == {Alice, Ghost}

AllInit ==
    \E k \in {0, LockThreshold} :
        /\ users = ProbeRounds(Registered, k)[1]
        /\ login_attempts = ProbeRounds(Registered, k)[2]
        /\ hist = ProbeRounds(Registered, k)[3]
        /\ now = 0
        /\ session = [c \in Clients |-> EmptySession]
        /\ pc = [c \in Clients |-> "idle"]
        /\ req = [c \in Clients |-> IdleReq]
        /\ nreq = 0

AllRegister(c) == nreq < MaxAllRequests /\ \E f \in AllRegForms : StartRegister(c, f)
AllLogin(c) ==
    /\ nreq < MaxAllRequests
    /\ \E f \in (IF c = 1 THEN AllLoginForms ELSE ProbeForms) : StartLogin(c, f)
AllDashboard(c) == nreq < MaxAllRequests /\ Dashboard(c)
AllLogout(c) == nreq < MaxAllRequests /\ Logout(c)
AllUserCount(c) == nreq < MaxAllRequests /\ UserCount(c)
AllGetLoginAttempts(c) ==
    nreq < MaxAllRequests /\ \E u \in AllListNames : GetLoginAttempts(c, u)

AllNext ==
    \/ AllRegister(1)
    \/ \E c \in Clients : AllLogin(c)
    \/ AllDashboard(1)
    \/ AllLogout(1)
    \/ AllUserCount(1)
    \/ AllGetLoginAttempts(1)
    \/ \E c \in Clients : RegStep(c)
    \/ \E c \in Clients : LoginStep(c)
    \/ IdleTick

SpecAll == AllInit /\ [][AllNext]_vars

----------------------------------------------------------------------------
(* SpecFault: one client logs in as alice, one request after another, and  *)
(* any statement that login sends to the database may raise sqlite3.Error; *)
(* a lock period may pass between requests.  A behaviour starts as in      *)
(* SpecConc.                                                               *)

FaultLogin == nreq < MaxFaultRequests /\ \E f \in SeqLoginForms : StartLogin(1, f)

FaultNext ==
    \/ FaultLogin
    \/ LoginStep(1)
    \/ FaultStep(1)
    \/ IdleLockPeriod

SpecFault == ConcInit /\ [][FaultNext]_vars

----------------------------------------------------------------------------
(* SpecStreak: one client logs in as alice with the right or a wrong       *)
(* password, one request after another; a lock period may pass between     *)
(* requests.  A behaviour starts as in SpecConc.                           *)

StreakLogin == nreq < MaxStreakRequests /\ \E f \in SeqLoginForms : StartLogin(1, f)

StreakNext ==
    \/ StreakLogin
    \/ LoginStep(1)
    \/ IdleLockPeriod

SpecStreak == ConcInit /\ [][StreakNext]_vars

----------------------------------------------------------------------------
(* SpecSession: the clients log in as alice with the right or a wrong      *)
(* password, or with no password, ask for the dashboard and log out; every *)
(* client has a session of its own and sends one request after another,    *)
(* and the requests of different clients interleave statement by           *)
(* statement.  A behaviour starts as in SpecAll.                           *)

SessionLoginForms ==
    {LoginForm(Alice, GoodPw), LoginForm(Alice, WrongPw), LoginForm(Alice, NoText)}

SessionLogin(c) ==
    nreq < MaxSessionRequests /\ \E f \in SessionLoginForms : StartLogin(c, f)
SessionDashboard(c) == nreq < MaxSessionRequests /\ Dashboard(c)
SessionLogout(c) == nreq < MaxSessionRequests /\ Logout(c)

SessionNext ==
    \/ \E c \in Clients : SessionLogin(c)
    \/ \E c \in Clients : SessionDashboard(c)
    \/ \E c \in Clients : SessionLogout(c)
    \/ \E c \in Clients : LoginStep(c)

SpecSession == AllInit /\ [][SessionNext]_vars

----------------------------------------------------------------------------
(* SpecValid: the three validators called directly, as the unit tests call *)
(* them, on every text of a bounded family.  Passwords are a run of '-'    *)
(* (a character of none of the four classes) followed by a tail over one   *)
(* character of each class, of lengths on both sides of MinPasswordLen;    *)
(* usernames are a run of 'b' followed by a tail over a letter, '_', '-'   *)
(* and newline, of lengths on both sides of MinUsernameLen and             *)
(* MaxUsernameLen; emails are every text up to MaxMailLen over a letter,   *)
(* '@', '.', blank and newline.                                            *)

\* every text of at most n characters over the alphabet
Texts(alphabet, n) == UNION {[1 .. k -> alphabet] : k \in 0 .. n}

\* the character ch, m times
Run(ch, m) == [i \in 1 .. m |-> ch]

PasswordInputs ==
    {Run("-", m) \o t :
       m \in {0, MinPasswordLen - MaxPwTail, MinPasswordLen - MaxPwTail + 1},
       t \in Texts({"A", "a", "1", "!"}, MaxPwTail)}

UsernameInputs ==
    {Run("b", m) \o t :
       m \in {0, MaxUsernameLen - MaxNameTail, MaxUsernameLen - MaxNameTail + 1},
       t \in Texts({"a", "_", "-", "\n"}, MaxNameTail)}

EmailInputs == Texts({"a", "@", ".", " ", "\n"}, MaxMailLen)

ValidEmail ==
    /\ nreq < MaxValidCalls /\ pc[1] = "idle"
    /\ \E t \in EmailInputs : CallValidateEmail(1, t)
ValidPassword ==
    /\ nreq < MaxValidCalls /\ pc[1] = "idle"
    /\ \E t \in PasswordInputs : CallValidatePassword(1, t)
ValidUsername ==
    /\ nreq < MaxValidCalls /\ pc[1] = "idle"
    /\ \E t \in UsernameInputs : CallValidateUsername(1, t)

ValidNext ==
    \/ ValidEmail
    \/ ValidPassword
    \/ ValidUsername
    \/ Finish(1)

SpecValid == Init /\ [][ValidNext]_vars

----------------------------------------------------------------------------
(* SpecRound: one client registers and logs in, one request after another, *)
(* from the empty database: two accounts with different passwords, and     *)
(* logins with each account's password, the other account's, and the       *)
(* password followed by a blank, all within the minute 0.                  *)

RoundRegForms ==
    {RegForm(Alice, MailA, GoodPw, GoodPw), RegForm(Alice, MailB, OtherPw, OtherPw),
     RegForm(Bob, MailB, OtherPw, OtherPw)}
RoundLoginForms ==
    {LoginForm(u, p) : u \in {Alice, AlicePadded, Bob},
                       p \in {GoodPw, OtherPw, PaddedPw}}

RoundRegister == nreq < MaxRoundRequests /\ \E f \in RoundRegForms : StartRegister(1, f)
RoundLogin == nreq < MaxRoundRequests /\ \E f \in RoundLoginForms : StartLogin(1, f)

RoundNext ==
    \/ RoundRegister
    \/ RoundLogin
    \/ RegStep(1)
    \/ LoginStep(1)

SpecRound == Init /\ [][RoundNext]_vars

----------------------------------------------------------------------------
(* SpecPair: alice and bob are registered, each one failure short of the   *)
(* lock or locked; the clients log in as either with alice's or bob's      *)
(* password, the requests interleave statement by statement and a lock     *)
(* period may pass between requests.                                       *)

RECURSIVE FailedRounds(_, _, _)
FailedRounds(st, u, k) ==
    IF k = 0 THEN st ELSE FailedLogin(FailedRounds(st, u, k - 1), u)

RegisteredPair ==
    << InsertUser(Registered[1], Bob, MailB,
                  generate_password_hash(OtherPw, 1), 0),
       <<>>, <<>> >>

PairCounts == {LockThreshold - 1, LockThreshold}

PairState(ka, kb) ==
    FailedRounds(FailedRounds(RegisteredPair, Alice, ka), Bob, kb)

PairInit ==
    \E ka \in PairCounts, kb \in PairCounts :
        /\ users = PairState(ka, kb)[1]
        /\ login_attempts = PairState(ka, kb)[2]
        /\ hist = PairState(ka, kb)[3]
        /\ now = 0
        /\ session = [c \in Clients |-> EmptySession]
        /\ pc = [c \in Clients |-> "idle"]
        /\ req = [c \in Clients |-> IdleReq]
        /\ nreq = 0

PairForms == {LoginForm(u, p) : u \in {Alice, Bob}, p \in {GoodPw, OtherPw}}

PairLogin(c) == nreq < MaxPairRequests /\ \E f \in PairForms : StartLogin(c, f)

PairNext ==
    \/ \E c \in Clients : PairLogin(c)
    \/ \E c \in Clients : LoginStep(c)
    \/ IdleLockPeriod

SpecPair == PairInit /\ [][PairNext]_vars

----------------------------------------------------------------------------
(* Vocabulary of the properties *)

\* the completed login calls that submitted username u, oldest first
CallsOf(u) == SelectSeq(hist, LAMBDA h : h.username = u)

HistUsernames == {hist[k].username : k \in 1 .. Len(hist)}

\* the password u registered with
CorrectPassword(u, p) ==
    \E i \in 1 .. Len(users) :
        /\ users[i].username = u
        /\ users[i].password_hash = generate_password_hash(p, users[i].password_hash.salt)

LoginDone(c) == pc[c] = "done" /\ req[c].op = "login"

\* cs[i .. i+4] are five failed logins in a row on an existing account (wrong
\* password, answered InvalidCredentials), each completed less than
\* LockMinutes after the one before started, and call j comes after them,
\* completed less than LockMinutes after the fifth started
FiveFailuresThen(cs, i, j) ==
    /\ i >= 1 /\ i + 5 <= j /\ j <= Len(cs)
    /\ \A k \in i .. (i + 4) : cs[k].known /\ cs[k].outcome = "InvalidCredentials"
    /\ \A k \in i .. (i + 3) : cs[k + 1].at - cs[k].start < LockMinutes
    /\ cs[j].at - cs[i + 4].start < LockMinutes

----------------------------------------------------------------------------
(* Properties of requests served one after another (Spec) *)

\* C1: after 5 consecutive failed logins on a registered account (wrong
\* password, no success and no 30-minute pause in between), every further
\* login call made before 30 minutes have passed is answered Locked, whatever
\* password it submits.
C1_LockedAfterFiveFailures ==
    \A u \in HistUsernames :
        \A i \in 1 .. Len(CallsOf(u)) : \A j \in 1 .. Len(CallsOf(u)) :
            FiveFailuresThen(CallsOf(u), i, j) => CallsOf(u)[j].outcome = "Locked"

\* C1 witness: the sixth call, with the correct password, answered Locked
C1_Witness ==
    \E c \in Clients :
        /\ LoginDone(c)
        /\ CorrectPassword(req[c].username, req[c].password)
        /\ Outcome(req[c]) = "Locked"
        /\ \E i \in 1 .. Len(hist) :
               FiveFailuresThen(CallsOf(req[c].username), i,
                                Len(CallsOf(req[c].username)))

\* C3: a login answered Success leaves the account with
\* failed_login_attempts = 0 and account_locked_until NULL.
C3_SuccessResets ==
    \A c \in Clients :
        (LoginDone(c) /\ Outcome(req[c]) = "Success")
            => /\ FailedCount(users, req[c].username) = 0
               /\ LockedUntil(users, req[c].username) = NULL

\* C3 witness: a Success on an account that had failures and a lock before
C3_Witness ==
    \E c \in Clients :
        /\ LoginDone(c) /\ Outcome(req[c]) = "Success"
        /\ req[c].pre # NoRow
        /\ req[c].pre.failed_login_attempts > 0
        /\ req[c].pre.account_locked_until # NULL
        /\ FailedCount(users, req[c].username) = 0

\* the failed logins of u (answered InvalidCredentials) among the first n
\* completed calls
FailuresBefore(u, n) ==
    {k \in 1 .. n : hist[k].username = u /\ hist[k].outcome = "InvalidCredentials"}

SetMax(S) == CHOOSE x \in S : \A y \in S : y <= x

\* C4: a lock found by a login call ends 30 minutes after the last failed
\* login of that account, however many calls were made since; and a call
\* with the correct password that starts when the clock has reached that
\* account_locked_until is answered Success.
C4_UsableAfterLockExpiry ==
    \A c \in Clients :
        ( /\ LoginDone(c)
          /\ req[c].pre # NoRow
          /\ req[c].pre.account_locked_until # NULL )
            => /\ FailuresBefore(req[c].username, Len(hist) - 1) # {}
               /\ req[c].pre.account_locked_until =
                    hist[SetMax(FailuresBefore(req[c].username, Len(hist) - 1))].at
                      + LockMinutes
               /\ ( /\ req[c].start >= req[c].pre.account_locked_until
                    /\ CorrectPassword(req[c].username, req[c].password) )
                      => Outcome(req[c]) = "Success"

\* C4 witness: such a Success, after a call was answered Locked meanwhile,
\* exactly when the clock reaches the lock end
C4_Witness ==
    \E c \in Clients :
        /\ LoginDone(c) /\ Outcome(req[c]) = "Success"
        /\ req[c].pre # NoRow
        /\ req[c].start = req[c].pre.account_locked_until
        /\ \E k \in 1 .. Len(hist) :
               /\ hist[k].username = req[c].username
               /\ hist[k].outcome = "Locked"

\* the step of client c that ends is_account_locked
LockCheckStep(c) == pc[c] = "lock_check" /\ pc'[c] # "lock_check"

\* the step of client c that runs increment_failed_login
FailIncrStep(c) == pc[c] = "fail_incr" /\ pc'[c] = "fail_log"

\* C6: the lock check of an account whose lock end the clock has reached
\* returns False (the login goes on to the lookup) and leaves the account with
\* account_locked_until NULL and failed_login_attempts = 0; and a counter
\* only grows by 1, in a failed-login update of that account, and a lock only
\* appears where the counter is at least 5: an unlocked account needs 5 new
\* failed logins to be locked again.
C6_LazyUnlock ==
    [][ /\ \A c \in Clients :
             ( /\ LockCheckStep(c)
               /\ LockedUntil(users, req[c].username) # NULL
               /\ now >= LockedUntil(users, req[c].username) )
                 => /\ pc'[c] = "lookup"
                    /\ LockedUntil(users', req[c].username) = NULL
                    /\ FailedCount(users', req[c].username) = 0
        /\ \A i \in 1 .. Len(users) :
             /\ users'[i].failed_login_attempts > users[i].failed_login_attempts
                  => /\ users'[i].failed_login_attempts
                          = users[i].failed_login_attempts + 1
                     /\ \E c \in Clients : /\ FailIncrStep(c)
                                           /\ req[c].username = users[i].username
             /\ ( /\ users[i].account_locked_until = NULL
                  /\ users'[i].account_locked_until # NULL )
                  => users'[i].failed_login_attempts >= LockThreshold
      ]_vars

\* C6 witness: the lock check has just unlocked an account whose lock expired
C6_Witness ==
    \E c \in Clients :
        /\ pc[c] = "lookup"
        /\ req[c].pre # NoRow
        /\ req[c].pre.account_locked_until # NULL
        /\ req[c].pre.failed_login_attempts = LockThreshold
        /\ req[c].checked >= req[c].pre.account_locked_until
        /\ LockedUntil(users, req[c].username) = NULL
        /\ FailedCount(users, req[c].username) = 0

\* C7: a failed-login update of an existing account raises
\* failed_login_attempts by exactly 1 and sets account_locked_until to
\* now + 30 minutes if the new count has reached 5, and leaves
\* account_locked_until as it was if the new count is below 5.
C7_FailureUpdate ==
    [][ \A c \in Clients :
          (FailIncrStep(c) /\ SelectByUsername(users, req[c].username) # NoRow)
            => /\ FailedCount(users', req[c].username)
                    = FailedCount(users, req[c].username) + 1
               /\ LockedUntil(users', req[c].username) =
                    IF FailedCount(users', req[c].username) >= LockThreshold
                    THEN now + LockMinutes
                    ELSE LockedUntil(users, req[c].username)
      ]_vars

\* C7 witness: the update that brings the count to 5 has set the lock
C7_Witness ==
    \E c \in Clients :
        /\ pc[c] = "fail_log"
        /\ FailedCount(users, req[c].username) = LockThreshold
        /\ LockedUntil(users, req[c].username) = now + LockMinutes
        /\ req[c].pre.account_locked_until = NULL

----------------------------------------------------------------------------
(* Properties of interleaved logins (SpecConc) *)

\* the account of username u is locked at time t
LockedAt(us, u, t) == LockedUntil(us, u) # NULL /\ t < LockedUntil(us, u)

\* the step of client c that verifies the password and fills the session
SessionSetStep(c) == pc[c] = "lookup" /\ pc'[c] = "success_reset"

\* the step of client c that runs reset_failed_login
SuccessResetStep(c) == pc[c] = "success_reset" /\ pc'[c] = "success_log"

\* the step of client c that answers Success
SuccessStep(c) == pc[c] = "success_log" /\ pc'[c] = "done"

\* C2: no login fills the session or answers Success at a moment when the
\* account's account_locked_until is present and in the future.
C2_NoSuccessWhileLocked ==
    [][ \A c \in Clients :
          /\ SessionSetStep(c) => ~LockedAt(users, req[c].username, now)
          /\ SuccessStep(c) => ~LockedAt(users', req[c].username, now)
      ]_vars

\* C5: a lock that is still in the future is cleared only by the success
\* reset of a login of that account, and the unlocking update of a lock
\* check changes only an account whose counter and lock are still those the
\* check read.
C5_UnlockOnlyWhatWasRead ==
    [][ \A i \in 1 .. Len(users) :
          /\ ( /\ users[i].account_locked_until # NULL
               /\ now < users[i].account_locked_until
               /\ users'[i].account_locked_until = NULL )
               => \E c \in Clients : /\ SuccessResetStep(c)
                                     /\ req[c].username = users[i].username
          /\ \A c \in Clients :
               (LockCheckStep(c) /\ users'[i] # users[i])
                 => /\ req[c].row # NoRow
                    /\ users[i].account_locked_until
                           = req[c].row.account_locked_until
                    /\ users[i].failed_login_attempts
                           = req[c].row.failed_login_attempts
      ]_vars

\* the failed logins of account u (wrong password, answered
\* InvalidCredentials) completed at the present clock reading
FailedNow(u) ==
    {k \in 1 .. Len(hist) : /\ hist[k].username = u
                            /\ hist[k].known
                            /\ hist[k].outcome = "InvalidCredentials"
                            /\ hist[k].at = now}

SetMin(S) == CHOOSE x \in S : \A y \in S : x <= y

\* no request is in flight, and every login of u completed at the present
\* clock reading is a failed one that also passed its lock check at this
\* reading, or one that did not get past the lock check
OnlyFailuresNow(u) ==
    /\ \A c \in Clients : pc[c] \in {"idle", "done"}
    /\ \A k \in 1 .. Len(hist) :
         (hist[k].username = u /\ hist[k].at = now)
           => /\ hist[k].outcome # "Success"
              /\ hist[k].outcome = "InvalidCredentials" => hist[k].checked = now

\* C8: when k logins with a wrong password have passed the lock check and
\* completed, with no successful login among them, failed_login_attempts
\* stands k above the value it had when the first of them passed the lock
\* check; and an account whose count has reached 5 is locked.
C8_NoLostIncrement ==
    \A i \in 1 .. Len(users) :
        /\ (OnlyFailuresNow(users[i].username) /\ FailedNow(users[i].username) # {})
             => users[i].failed_login_attempts
                  = SetMin({hist[k].base : k \in FailedNow(users[i].username)})
                      + Cardinality(FailedNow(users[i].username))
        /\ users[i].failed_login_attempts >= LockThreshold
             => users[i].account_locked_until # NULL

----------------------------------------------------------------------------
(* Properties of interleaved registrations (SpecReg) *)

RegisterDone(c) == pc[c] = "done" /\ req[c].op = "register"

\* C9: of the registrations of one username that passed validation, the one
\* that succeeds leaves every other with the Conflict answer.
C9_LosersSeeConflict ==
    \A c \in Clients : \A d \in Clients :
        ( /\ c # d
          /\ RegisterDone(c) /\ RegisterDone(d)
          /\ req[c].username = req[d].username
          /\ req[c].email # req[d].email
          /\ Outcome(req[c]) = "Registered"
          /\ Outcome(req[d]) \in {"Registered", "Conflict", "StorageError"} )
            => Outcome(req[d]) = "Conflict"

\* C10: no two accounts have the same username, and no two the same email.
C10_UniqueAccounts ==
    \A i \in 1 .. Len(users) : \A j \in 1 .. Len(users) :
        i # j => /\ users[i].username # users[j].username
                 /\ users[i].email # users[j].email

\* C10 witness: two accounts stand, and a registration that passed the
\* SELECT was stopped by a UNIQUE constraint
C10_Witness ==
    /\ Len(users) = 2
    /\ \E c \in Clients : RegisterDone(c) /\ Outcome(req[c]) = "StorageError"

----------------------------------------------------------------------------
(* Properties of registration (SpecForms) *)

\* the rules of register, in the order of the checks
RuleOrder ==
    <<"MissingField", "InvalidUsername", "InvalidEmail", "InvalidPassword",
      "PasswordMismatch">>

\* the registration r (username and email as stripped) violates the rule
Violates(r, rule) ==
    CASE rule = "MissingField" ->
           r.username = NoText \/ r.email = NoText \/ r.password = NoText
      [] rule = "InvalidUsername" -> ~validate_username(r.username)[1]
      [] rule = "InvalidEmail" -> ~validate_email(r.email)
      [] rule = "InvalidPassword" -> ~validate_password(r.password)[1]
      [] rule = "PasswordMismatch" -> r.password # r.confirm

ViolatedRules(r) == {i \in 1 .. Len(RuleOrder) : Violates(r, RuleOrder[i])}

\* the reason that goes with an outcome kind where the kind has several
ReasonFits(r) ==
    /\ Outcome(r) = "InvalidUsername" => r.flash = validate_username(r.username)[2]
    /\ Outcome(r) = "InvalidPassword" => r.flash = validate_password(r.password)[2]

\* the step is one of the register call of client c
RegisterStepOf(c) == pc'[c] # pc[c] /\ req'[c].op = "register"

\* C11: a registration whose inputs pass all syntactic checks and whose
\* username, or whose email, is that of an account that stood when the
\* request began is answered 'Username or email already exists'.
C11_DuplicateRejected ==
    \A c \in Clients :
        ( /\ RegisterDone(c)
          /\ ViolatedRules(req[c]) = {}
          /\ req[c].dupname \/ req[c].dupmail )
            => /\ req[c].flash = MsgDuplicate
               /\ Outcome(req[c]) = "Conflict"

\* C11 witness: two registrations answered Conflict, one colliding on the
\* username only and one on the email only
C11_Witness ==
    \E c \in Clients : \E d \in Clients :
        /\ RegisterDone(c) /\ RegisterDone(d)
        /\ req[c].dupname /\ ~req[c].dupmail /\ Outcome(req[c]) = "Conflict"
        /\ req[d].dupmail /\ ~req[d].dupname /\ Outcome(req[d]) = "Conflict"

\* C12: a registration that violates one or more of the rules presence,
\* username syntax, email syntax, password strength, confirmation match is
\* answered with the error of the earliest violated rule in this order; one
\* that violates none gets as far as the uniqueness check.
C12_FirstFailingRule ==
    \A c \in Clients :
        RegisterDone(c) =>
            IF ViolatedRules(req[c]) # {}
            THEN /\ Outcome(req[c]) = RuleOrder[SetMin(ViolatedRules(req[c]))]
                 /\ ReasonFits(req[c])
            ELSE Outcome(req[c]) \in {"Registered", "Conflict", "StorageError"}

\* C12 witness: a form that violates the four rules after presence at once
\* (and has the username of an account) is answered InvalidUsername
C12_Witness ==
    \E c \in Clients :
        /\ RegisterDone(c)
        /\ ViolatedRules(req[c]) = {2, 3, 4, 5}
        /\ Outcome(req[c]) = "InvalidUsername"
        /\ Len(users) > 0

\* C13: the steps of a register call leave the login-attempt log as it is,
\* and change the accounts only when the call's inputs violate no rule and
\* it is answered Registered; a call answered with an error leaves the
\* accounts, and so their count, as they were.
C13_ErrorsChangeNothing ==
    [][ \A c \in Clients :
          RegisterStepOf(c) =>
            /\ login_attempts' = login_attempts
            /\ users' # users
                 => /\ pc'[c] = "done"
                    /\ Outcome(req'[c]) = "Registered"
                    /\ ViolatedRules(req'[c]) = {}
            /\ (pc'[c] = "done" /\ Outcome(req'[c]) # "Registered")
                 => /\ users' = users
                    /\ CountUsers(users') = CountUsers(users)
      ]_vars

\* C13 witness: one registration stopped by the UNIQUE constraint and one
\* stopped by a validation rule, with the one account of the winner
C13_Witness ==
    \E c \in Clients : \E d \in Clients :
        /\ RegisterDone(c) /\ Outcome(req[c]) = "StorageError"
        /\ RegisterDone(d) /\ ViolatedRules(req[d]) # {}
        /\ CountUsers(users) = 1

\* C14: the step that answers Registered adds exactly one account, after
\* the accounts that stood, with the call's username and email,
\* failed_login_attempts = 0, account_locked_until NULL and last_login NULL.
C14_NewAccountOpen ==
    [][ \A c \in Clients :
          ( /\ RegisterStepOf(c)
            /\ pc'[c] = "done"
            /\ Outcome(req'[c]) = "Registered" )
            => /\ CountUsers(users') = CountUsers(users) + 1
               /\ SubSeq(users', 1, Len(users)) = users
               /\ users'[Len(users')].username = req[c].username
               /\ users'[Len(users')].email = req[c].email
               /\ users'[Len(users')].failed_login_attempts = 0
               /\ users'[Len(users')].account_locked_until = NULL
               /\ users'[Len(users')].last_login = NULL
      ]_vars

\* C14 witness: a second registration has succeeded and a count request
\* answers 2
C14_Witness ==
    \E c \in Clients : \E d \in Clients :
        /\ RegisterDone(c) /\ Outcome(req[c]) = "Registered"
        /\ users[Len(users)].username = req[c].username
        /\ pc[d] = "done" /\ req[d].op = "user_count"
        /\ req[d].body = <<[user_count |-> 2]>>

----------------------------------------------------------------------------
(* Properties of login (SpecLogin) *)

\* the login request r carries a username (as stripped) and a password
HasCredentials(r) == r.username # NoText /\ r.password # NoText

\* the step is one of the login call of client c
LoginStepOf(c) == pc'[c] # pc[c] /\ req'[c].op = "login"

----------------------------------------------------------------------------
(* Properties of logins with a wrong password (SpecProbe) *)

\* the first k login calls for username u and the first k for username g
\* are the same sequence of attempts: pairwise submitted at the same time
\* (every call of SpecProbe submits the same wrong password)
SameProbes(u, g, k) ==
    /\ k <= Len(CallsOf(u)) /\ k <= Len(CallsOf(g))
    /\ \A j \in 1 .. k : CallsOf(u)[j].start = CallsOf(g)[j].start

\* C16: for every sequence of wrong-password logins, the outcomes obtained
\* against an existing account equal, call by call, the outcomes obtained
\* against a username without account.
C16_NoEnumeration ==
    \A u \in HistUsernames : \A g \in HistUsernames :
        ( /\ SelectByUsername(users, u) # NoRow
          /\ SelectByUsername(users, g) = NoRow )
            => \A k \in 1 .. Len(CallsOf(u)) :
                   SameProbes(u, g, k)
                     => CallsOf(u)[k].outcome = CallsOf(g)[k].outcome

----------------------------------------------------------------------------
(* Properties of login (SpecLogin), continued *)

\* C17: a login call with an empty username (after stripping) or an empty
\* password completes in its first step with 'Username and password are
\* required'; neither that step nor the delivery of the response changes the
\* login-attempt log, an account or a session.
C17_EmptyShortCircuit ==
    [][ \A c \in Clients :
          /\ ( /\ LoginStepOf(c)
               /\ pc[c] = "idle"
               /\ ~HasCredentials(req'[c]) )
               => /\ pc'[c] = "done"
                  /\ req'[c].flash = MsgCredsRequired
                  /\ login_attempts' = login_attempts
                  /\ users' = users
                  /\ session' = session
          /\ ( /\ pc'[c] # pc[c]
               /\ req[c].op = "login"
               /\ ~HasCredentials(req[c]) )
               => /\ pc[c] = "done" /\ pc'[c] = "idle"
                  /\ login_attempts' = login_attempts
                  /\ users' = users
                  /\ session' = session
      ]_vars

\* C17 witness: a login with a username and no password has been answered,
\* and the log is still empty
C17_Witness ==
    \E c \in Clients :
        /\ LoginDone(c)
        /\ req[c].username # NoText /\ req[c].password = NoText
        /\ req[c].flash = MsgCredsRequired
        /\ login_attempts = <<>>
        /\ session[c] = EmptySession

\* the records of the log with that username
LoggedFor(la, u) == {i \in 1 .. Len(la) : la[i].username = u}

\* the completed login calls with credentials for that username
CompletedFor(h, u) ==
    {i \in 1 .. Len(h) : h[i].username = u /\ h[i].outcome # "MissingCredentials"}

\* C18: a login call with a username and a password appends one record to
\* the log, in the step that completes it and in no other: the record
\* carries the call's username (as stripped), and its success flag is true
\* exactly if the call is answered Success; so the log holds, for every
\* username, as many records as calls with credentials have completed.
C18_OneAttemptPerCall ==
    [][ /\ \A c \in Clients :
             (LoginStepOf(c) /\ HasCredentials(req'[c]))
               => IF pc'[c] = "done"
                  THEN login_attempts' =
                         Append(login_attempts,
                                [id |-> Len(login_attempts) + 1,
                                 username |-> req'[c].username,
                                 ip_address |-> RemoteAddr,
                                 success |-> (Outcome(req'[c]) = "Success"),
                                 timestamp |-> now])
                  ELSE login_attempts' = login_attempts
        /\ \A u \in {hist'[k].username : k \in 1 .. Len(hist')} :
             Cardinality(LoggedFor(login_attempts', u))
               = Cardinality(CompletedFor(hist', u))
      ]_vars

\* C18 witness: after a call answered Locked, a call answered Success has
\* logged a success, and the log holds records of the unknown username
C18_Witness ==
    \E c \in Clients :
        /\ LoginDone(c) /\ Outcome(req[c]) = "Success"
        /\ login_attempts[Len(login_attempts)].success
        /\ login_attempts[Len(login_attempts)].username = req[c].username
        /\ \E k \in 1 .. Len(hist) :
               hist[k].outcome = "Locked" /\ hist[k].username = req[c].username
        /\ \E i \in 1 .. Len(login_attempts) :
               SelectByUsername(users, login_attempts[i].username) = NoRow

----------------------------------------------------------------------------
(* Properties of the login-attempt log (SpecAll) *)

\* C19: no step of any operation modifies, removes or reorders a record of
\* the login-attempt log: the log after a step is the log before it,
\* followed by the records the step has added.
C19_LogAppendOnly ==
    [][ /\ Len(login_attempts') >= Len(login_attempts)
        /\ SubSeq(login_attempts', 1, Len(login_attempts)) = login_attempts
      ]_vars

\* C19 witness: the log holds the records of the earlier failures, then one
\* of a later minute, and the list of alice's attempts has been served
C19_Witness ==
    /\ Len(login_attempts) > 2 * LockThreshold
    /\ login_attempts[1].timestamp < login_attempts[Len(login_attempts)].timestamp
    /\ \E c \in Clients :
          /\ pc[c] = "done" /\ req[c].op = "login_attempts"
          /\ req[c].username = Alice
          /\ req[c].body # <<>>

\* a sequence in reverse
Reverse(sq) == [i \in 1 .. Len(sq) |-> sq[Len(sq) + 1 - i]]

\* C20: the list of attempts served for a username is the sequence of the
\* at most 10 most recently logged records of exactly that username, newest
\* first (empty when there is none), also when records carry the same
\* timestamp.
C20_NewestFirst ==
    [][ \A c \in Clients :
          (pc[c] = "idle" /\ pc'[c] = "done" /\ req'[c].op = "login_attempts")
            => req'[c].body =
                 Limit(Reverse(AttemptsOf(login_attempts, req'[c].username)),
                       ListLimit)
      ]_vars

----------------------------------------------------------------------------
(* Properties of login under storage failures (SpecFault) *)

\* the step of a login call in which log_login_attempt runs
LogStep(c) ==
    pc[c] \in {"locked_log", "success_log", "fail_log"} /\ pc'[c] = "done"

\* the answer of login on the path that reaches that log_login_attempt
AnswerAfterLog(at) ==
    CASE at = "locked_log" -> [flash |-> MsgLocked, resp |-> "login.html"]
      [] at = "success_log" -> [flash |-> MsgLoginOk, resp |-> "redirect:dashboard"]
      [] at = "fail_log" -> [flash |-> MsgInvalidLogin, resp |-> "login.html"]

\* C21: the step of a login call in which log_login_attempt runs gives the
\* same answer (Locked, Success or InvalidCredentials, as the path taken
\* decides), the same session and the same accounts, counters and locks
\* included, whether the record is written or the INSERT raises; only the
\* log differs.
C21_LogFailureSwallowed ==
    [][ \A c \in Clients :
          LogStep(c) =>
            /\ req'[c].flash = AnswerAfterLog(pc[c]).flash
            /\ req'[c].resp = AnswerAfterLog(pc[c]).resp
            /\ Outcome(req'[c]) \in {"Locked", "Success", "InvalidCredentials"}
            /\ hist'[Len(hist')].outcome = Outcome(req'[c])
            /\ users' = users
            /\ session' = session
            /\ \/ login_attempts' = login_attempts
               \/ /\ Len(login_attempts') = Len(login_attempts) + 1
                  /\ "log_login_attempt" \notin req'[c].faults
      ]_vars

\* C21 witness: three calls have completed with a failed log_login_attempt
\* as their only failure, one answered Locked, one InvalidCredentials and
\* the last one Success, and the log holds no record of any of them
C21_Witness ==
    /\ LoginDone(1) /\ Outcome(req[1]) = "Success"
    /\ req[1].faults = {"log_login_attempt"}
    /\ Len(hist) = Len(login_attempts) + 3
    /\ \E i, j \in 1 .. Len(hist) :
          /\ i < j
          /\ hist[i].outcome = "Locked"
          /\ hist[j].outcome = "InvalidCredentials"

\* the functions of login, other than log_login_attempt, that send
\* statements to the database
StoreFunctions ==
    {"is_account_locked", "login", "increment_failed_login", "reset_failed_login"}

\* C22: a login call in which a statement of the lock check, the account
\* lookup, the counter update or the success reset raised is not answered
\* Success; if the account was locked when the call started it is not
\* answered as an unlocked account is (Success or InvalidCredentials); and
\* if it is answered InvalidCredentials for an existing account, the
\* account's counter stands one above its value after the lock check.
C22_FailureNotSuccess ==
    \A c \in Clients :
        (LoginDone(c) /\ req[c].faults \cap StoreFunctions # {})
          => /\ Outcome(req[c]) # "Success"
             /\ (req[c].pre # NoRow
                   /\ req[c].pre.account_locked_until # NULL
                   /\ req[c].start < req[c].pre.account_locked_until)
                  => Outcome(req[c]) \notin {"Success", "InvalidCredentials"}
             /\ (Outcome(req[c]) = "InvalidCredentials" /\ req[c].pre # NoRow)
                  => FailedCount(users, req[c].username) = req[c].base + 1

----------------------------------------------------------------------------
(* Properties of the accounts under every operation (SpecAll) *)

\* C23: in every step, for every account: if the step clears the lock
\* timestamp it leaves the counter at 0, and if it zeroes the counter it
\* leaves no lock timestamp in place.
C23_ResetWithUnlock ==
    [][ \A i \in 1 .. Len(users) :
          /\ i <= Len(users')
          /\ (users[i].account_locked_until # NULL
                /\ users'[i].account_locked_until = NULL)
               => users'[i].failed_login_attempts = 0
          /\ (users[i].failed_login_attempts # 0
                /\ users'[i].failed_login_attempts = 0)
               => users'[i].account_locked_until = NULL
      ]_vars

\* C23 witness: a login for alice, whose account was locked with a counter
\* of LockThreshold when the call started, has passed the lock check after
\* the lock period, and the account stands unlocked with a counter of 0
C23_Witness ==
    \E c \in Clients :
        /\ pc[c] = "lookup" /\ req[c].username = Alice
        /\ req[c].pre.account_locked_until # NULL
        /\ req[c].pre.failed_login_attempts = LockThreshold
        /\ LockedUntil(users, Alice) = NULL
        /\ FailedCount(users, Alice) = 0

----------------------------------------------------------------------------
(* Properties of the lock check (SpecLogin) *)

\* the lock check of c's login runs uninterrupted: the row it read is the
\* row of the table when it compares and updates
LockCheckAlone(c) ==
    /\ LockCheckStep(c)
    /\ req[c].row = SelectByUsername(users, req[c].username)

\* C24: when a lock check has run uninterrupted, a second call of
\* is_account_locked for the same username right after it, at the same
\* reading of the clock, returns what the first returned and leaves every
\* account, counter and lock included, as the first left it.
C24_LockCheckIdempotent ==
    [][ \A c \in Clients :
          LockCheckAlone(c) =>
            LET first == is_account_locked(users, req[c].username, now)
                second == is_account_locked(users', req[c].username, now)
            IN  /\ first.locked = (pc'[c] = "locked_log")
                /\ first.users = users'
                /\ second.locked = first.locked
                /\ second.users = first.users
      ]_vars

\* C24 witness: after the lock period two logins for alice have passed the
\* lock check one right after the other, with no failure in between: the
\* first found the expired lock and cleared it, and the account stands
\* unlocked with a counter of 0
C24_Witness ==
    \E c, d \in Clients :
        /\ c # d
        /\ pc[c] = "lookup" /\ pc[d] = "lookup"
        /\ req[c].username = Alice /\ req[d].username = Alice
        /\ req[c].checked = now /\ req[d].checked = now
        /\ req[c].base = 0 /\ req[d].base = 0
        /\ req[c].pre.account_locked_until # NULL
        /\ req[c].pre.account_locked_until <= now
        /\ LockedUntil(users, Alice) = NULL

\* C25: the lock check of a login whose username has no account returns
\* False (login goes on to the account lookup) and changes no account and
\* no record of the log; so does is_account_locked called on its own for
\* that username.
C25_NoAccountNeverLocked ==
    [][ \A c \in Clients :
          (/\ pc[c] \in {"lock_select", "lock_check"} /\ pc'[c] # pc[c]
           /\ SelectByUsername(users, req[c].username) = NoRow)
            => /\ pc'[c] \in {"lock_check", "lookup"}
               /\ users' = users
               /\ login_attempts' = login_attempts
               /\ is_account_locked(users, req[c].username, now)
                    = [locked |-> FALSE, users |-> users]
      ]_vars

\* C25 witness: while alice's account is locked, a login for the unknown
\* username ghost has passed the lock check
C25_Witness ==
    \E c \in Clients :
        /\ pc[c] = "lookup" /\ req[c].username = Ghost
        /\ req[c].checked = now
        /\ SelectByUsername(users, Ghost) = NoRow
        /\ LockedAt(users, Alice, now)

----------------------------------------------------------------------------
(* Properties of registration followed by login (SpecRound) *)

\* the account of the call's username was not locked when the call started
UnlockedAtStart(r) ==
    ~(r.pre.account_locked_until # NULL /\ r.start < r.pre.account_locked_until)

\* C26: a registration answered Registered leaves an account whose hash is
\* that of the password submitted; and a login with a non-empty password
\* for an account that is not locked is answered Success if the password is
\* the one the account was registered with, InvalidCredentials if it is
\* any other.
C26_RoundTrip ==
    \A c \in Clients :
        /\ (RegisterDone(c) /\ Outcome(req[c]) = "Registered")
             => /\ req[c].password = req[c].confirm
                /\ CorrectPassword(req[c].username, req[c].password)
        /\ (LoginDone(c) /\ HasCredentials(req[c]) /\ req[c].pre # NoRow
              /\ UnlockedAtStart(req[c]))
             => Outcome(req[c]) =
                  IF CorrectPassword(req[c].username, req[c].password)
                  THEN "Success" ELSE "InvalidCredentials"

\* C26 witness: alice and bob are registered with different passwords;
\* logins for alice with other passwords than hers have been answered
\* InvalidCredentials and counted, and she is now answered Success with her
\* own
C26_Witness ==
    /\ LoginDone(1) /\ Outcome(req[1]) = "Success"
    /\ req[1].username = Alice
    /\ CorrectPassword(Bob, OtherPw)
    /\ ~CorrectPassword(Alice, OtherPw)
    /\ req[1].pre.failed_login_attempts > 1
    /\ \E k \in 1 .. Len(hist) :
          hist[k].username = Alice /\ hist[k].outcome = "InvalidCredentials"

----------------------------------------------------------------------------
(* Properties of the failure streak (SpecStreak) *)

RECURSIVE TrailingFailures(_)
\* how many calls at the end of cs were answered InvalidCredentials
TrailingFailures(cs) ==
    IF cs = <<>> \/ cs[Len(cs)].outcome # "InvalidCredentials" THEN 0
    ELSE 1 + TrailingFailures(SubSeq(cs, 1, Len(cs) - 1))

\* C27: a step that sets or moves the lock timestamp of an account is the
\* counter update of a failed login for that account, and the
\* LockThreshold - 1 calls for that account completed last before it were
\* all answered InvalidCredentials: with the call in progress, five
\* failures with no Success, no Locked answer and no lock expiry between
\* them.
C27_LockOnlyAfterFive ==
    [][ \A i \in 1 .. Len(users) :
          (/\ i <= Len(users')
           /\ users'[i].account_locked_until # NULL
           /\ users'[i].account_locked_until # users[i].account_locked_until)
            => \E c \in Clients :
                 /\ FailIncrStep(c)
                 /\ req[c].username = users[i].username
                 /\ TrailingFailures(CallsOf(users[i].username))
                      >= LockThreshold - 1
                 /\ users'[i].failed_login_attempts = LockThreshold
      ]_vars

\* C27 witness: after four failures, a Success and four more failures
\* alice's account was not locked; the failure in progress is the fifth
\* since the Success and has locked it
C27_Witness ==
    /\ pc[1] = "fail_log" /\ req[1].username = Alice
    /\ LockedUntil(users, Alice) # NULL
    /\ req[1].base = LockThreshold - 1
    /\ Len(CallsOf(Alice)) = 2 * LockThreshold - 1
    /\ CallsOf(Alice)[LockThreshold].outcome = "Success"
    /\ TrailingFailures(CallsOf(Alice)) = LockThreshold - 1

----------------------------------------------------------------------------
(* Properties of the session (SpecSession) *)

\* a login call for that username has been answered Success
SucceededFor(u) ==
    \E k \in 1 .. Len(hist) :
        hist[k].username = u /\ hist[k].outcome = "Success"

DashboardDone(c) == pc[c] = "done" /\ req[c].op = "dashboard"

\* C28: a client's session names a user only if a login for that user has
\* been answered Success, or the client's own login has matched the
\* password and is on its way to that answer; a dashboard request is served
\* the page, with the session's username, if the session names a user and
\* is redirected to the login page if not; and a login call answered
\* InvalidCredentials, Locked or MissingCredentials leaves the client with
\* no session unless an earlier Success gave it one.
C28_DashboardNeedsSuccess ==
    \A c \in Clients :
        /\ session[c] # EmptySession
             => \/ SucceededFor(session[c].username)
                \/ /\ pc[c] \in {"success_reset", "success_log"}
                   /\ req[c].username = session[c].username
        /\ DashboardDone(c)
             => IF "user_id" \in DOMAIN session[c]
                THEN /\ req[c].resp = "dashboard.html"
                     /\ req[c].body = <<[username |-> session[c].username]>>
                     /\ SucceededFor(session[c].username)
                ELSE req[c].resp = "redirect:login" /\ req[c].body = <<>>
        /\ (LoginDone(c) /\ Outcome(req[c]) # "Success"
              /\ ~SucceededFor(req[c].username))
             => session[c] = EmptySession

\* C28 witness: one client has been answered InvalidCredentials and then
\* redirected from the dashboard, while another client holds the session
\* of its Success
C28_Witness ==
    \E c, d \in Clients :
        /\ DashboardDone(c) /\ req[c].resp = "redirect:login"
        /\ session[c] = EmptySession
        /\ "user_id" \in DOMAIN session[d]
        /\ Len(hist) = 2
        /\ hist[1].outcome = "InvalidCredentials"
        /\ hist[2].outcome = "Success"

\* C29: a logout request empties the client's session and changes no
\* account and no record of the log; a session that is empty stays empty
\* until a login of that client matches the password, which is a call
\* answered Success; and every dashboard request of a client whose session
\* is empty is redirected to the login page.
C29_LogoutInvalidates ==
    [][ \A c \in Clients :
          /\ (pc[c] = "idle" /\ pc'[c] = "done" /\ req'[c].op = "logout")
               => /\ session'[c] = EmptySession
                  /\ req'[c].resp = "redirect:index"
                  /\ users' = users
                  /\ login_attempts' = login_attempts
                  /\ \A d \in Clients \ {c} : session'[d] = session[d]
          /\ (session[c] = EmptySession /\ session'[c] # EmptySession)
               => SessionSetStep(c)
          /\ (pc[c] \in {"success_reset", "success_log"} /\ pc'[c] = "done")
               => Outcome(req'[c]) = "Success"
          /\ (pc[c] = "idle" /\ pc'[c] = "done" /\ req'[c].op = "dashboard"
                /\ session[c] = EmptySession)
               => req'[c].resp = "redirect:login"
      ]_vars

\* C29 witness: a client has logged in with Success, logged out and is now
\* redirected from the dashboard, no other client having sent a request;
\* the account and the log show the one login
C29_Witness ==
    \E c \in Clients :
        /\ DashboardDone(c) /\ req[c].resp = "redirect:login"
        /\ nreq = 3
        /\ Len(hist) = 1 /\ hist[1].outcome = "Success"
        /\ Len(login_attempts) = 1 /\ login_attempts[1].success
        /\ users[1].last_login # NULL
        /\ \A d \in Clients : session[d] = EmptySession

----------------------------------------------------------------------------
(* Properties of the accounts' identity (SpecAll) *)

\* C30: no step of any operation removes an account or changes the id,
\* the username, the email or the password hash of one: the accounts after
\* a step are those before it, in their order and with these four fields
\* as they were, followed by the account the step has created, if any.
C30_AccountsKeepIdentity ==
    [][ /\ Len(users') \in {Len(users), Len(users) + 1}
        /\ \A i \in 1 .. Len(users) :
             /\ users'[i].id = users[i].id
             /\ users'[i].username = users[i].username
             /\ users'[i].email = users[i].email
             /\ users'[i].password_hash = users[i].password_hash
      ]_vars

\* C30 witness: bob has registered next to alice, whose account has since
\* been locked, unlocked after the lock period and logged in to
C30_Witness ==
    /\ Len(users) = 2
    /\ users[2].username = Bob
    /\ users[1].username = Alice
    /\ users[1].last_login # NULL
    /\ users[1].failed_login_attempts = 0
    /\ Len(hist) > 2 * LockThreshold

----------------------------------------------------------------------------
(* Properties of the validators (SpecValid) *)

CallDone(c, fn) == pc[c] = "done" /\ req[c].op = fn

\* the characters of a text
CharsOf(t) == {t[i] : i \in 1 .. Len(t)}

\* the k-th rule of the password policy fails on p
PasswordRuleFails(p, k) ==
    CASE k = 1 -> Len(p) < MinPasswordLen
      [] k = 2 -> CharsOf(p) \cap UpperCase = {}
      [] k = 3 -> CharsOf(p) \cap LowerCase = {}
      [] k = 4 -> CharsOf(p) \cap Digits = {}
      [] k = 5 -> CharsOf(p) \cap SpecialChars = {}

\* the reasons of the five rules, in the order of the policy
PasswordReasons ==
    <<MsgPwLength, MsgPwUpper, MsgPwLower, MsgPwDigit, MsgPwSpecial>>

\* C31: validate_password returns (False, reason of the first rule, in the
\* order length, uppercase, lowercase, digit, special character, that the
\* password fails), and (True, 'Password is valid') if it fails none; a
\* password shorter than MinPasswordLen gets the length reason whatever it
\* contains.
C31_FirstFailingPasswordRule ==
    \A c \in Clients :
        CallDone(c, "validate_password") =>
          LET p == req[c].password
              failing == {k \in DOMAIN PasswordReasons : PasswordRuleFails(p, k)}
          IN  /\ IF failing = {}
                 THEN req[c].resp = "True" /\ req[c].flash = MsgPwValid
                 ELSE /\ req[c].resp = "False"
                      /\ req[c].flash = PasswordReasons[SetMin(failing)]
              /\ Len(p) < MinPasswordLen => req[c].flash = MsgPwLength

\* C31 witness: a password of MinPasswordLen characters or more that has
\* neither a digit nor a special character is refused with the reason of
\* the digit rule
C31_Witness ==
    \E c \in Clients :
        /\ CallDone(c, "validate_password")
        /\ Len(req[c].password) >= MinPasswordLen
        /\ CharsOf(req[c].password) \cap (Digits \cup SpecialChars) = {}
        /\ req[c].resp = "False" /\ req[c].flash = MsgPwDigit

\* C32: validate_username returns True exactly for the texts of
\* MinUsernameLen to MaxUsernameLen characters, all of them letters, digits
\* or '_'; a text of another length gets the length message, also when it
\* holds other characters, and a text of a fitting length with another
\* character gets the character-set message.
C32_UsernameRule ==
    \A c \in Clients :
        CallDone(c, "validate_username") =>
          LET u == req[c].username
              lengthFits == MinUsernameLen <= Len(u) /\ Len(u) <= MaxUsernameLen
              charsFit == CharsOf(u) \subseteq WordChars
          IN  /\ req[c].resp = BoolText(lengthFits /\ charsFit)
              /\ req[c].flash = IF ~lengthFits THEN MsgUserLength
                                ELSE IF ~charsFit THEN MsgUserChars
                                ELSE MsgUserValid

\* the whole text has the form local@domain.tld: local one or more of
\* [A-Za-z0-9._%+-], domain one or more of [A-Za-z0-9.-], and a final label
\* of two or more letters
EmailForm(t) ==
    \E at \in 1 .. Len(t) : \E dot \in at .. Len(t) :
        /\ at > 1 /\ CharsOf(SubSeq(t, 1, at - 1)) \subseteq EmailLocalChars
        /\ t[at] = "@"
        /\ dot > at + 1
        /\ CharsOf(SubSeq(t, at + 1, dot - 1)) \subseteq EmailDomainChars
        /\ t[dot] = "."
        /\ Len(t) - dot >= 2
        /\ CharsOf(SubSeq(t, dot + 1, Len(t))) \subseteq Letters

\* C33: validate_email returns True exactly for the texts that as a whole
\* have the form local@domain.tld; so it returns False for the empty text,
\* a text without '@', without local or domain part, with a domain without
\* a dot, or with a final label of fewer than two letters.
C33_EmailForm ==
    \A c \in Clients :
        CallDone(c, "validate_email")
          => req[c].resp = BoolText(EmailForm(req[c].email))

\* the text holds two consecutive dots somewhere after an '@'
DoubleDotInDomain(t) ==
    \E j \in 1 .. Len(t) : \E i \in (j + 1) .. (Len(t) - 1) :
        t[j] = "@" /\ t[i] = "." /\ t[i + 1] = "."

\* C34: validate_email returns False for every text that holds a blank, a
\* second '@', or two consecutive dots in the domain.
C34_MalformedEmailRefused ==
    \A c \in Clients :
        (/\ CallDone(c, "validate_email")
         /\ \/ " " \in CharsOf(req[c].email)
            \/ Cardinality({i \in 1 .. Len(req[c].email) : req[c].email[i] = "@"}) > 1
            \/ DoubleDotInDomain(req[c].email))
          => req[c].resp = "False"

----------------------------------------------------------------------------
(* Properties of the counter and the lock under interleaved logins         *)
(* (SpecProbe)                                                             *)

\* C35: no step changes the counter or the lock timestamp of an account
\* whose lock timestamp is in the future: logins against a locked account
\* neither count nor move the end of the lock.
C35_LockedAccountUntouched ==
    [][ \A i \in 1 .. Len(users) :
          (/\ users[i].account_locked_until # NULL
           /\ now < users[i].account_locked_until)
            => /\ users'[i].failed_login_attempts = users[i].failed_login_attempts
               /\ users'[i].account_locked_until = users[i].account_locked_until
      ]_vars

\* C36: the counter of every account is within 0 .. LockThreshold, and
\* below LockThreshold while the account has no lock timestamp.
C36_CountWithinThreshold ==
    \A i \in 1 .. Len(users) :
        /\ users[i].failed_login_attempts \in 0 .. LockThreshold
        /\ users[i].account_locked_until = NULL
             => users[i].failed_login_attempts < LockThreshold

----------------------------------------------------------------------------
(* Properties of the frame of a login (SpecLogin, SpecRound) *)

\* the request of client c is a login whose username has no account
UnknownLogin(c) ==
    /\ req[c].op = "login" /\ HasCredentials(req[c])
    /\ SelectByUsername(users, req[c].username) = NoRow

\* C38: every step of a login (username and password present) whose
\* username has no account leaves the accounts as they are, none created
\* and none changed, and leaves the session alone; the login adds nothing
\* to login_attempts before its last step, which adds one record with that
\* username and success false, and the call answers InvalidCredentials.
C38_UnknownLoginChangesNoAccount ==
    [][ \A c \in Clients :
          (UnknownLogin(c) /\ pc'[c] # pc[c])
            => /\ users' = users
               /\ session' = session
               /\ IF pc'[c] = "done"
                  THEN /\ Len(login_attempts') = Len(login_attempts) + 1
                       /\ SubSeq(login_attempts', 1, Len(login_attempts))
                            = login_attempts
                       /\ login_attempts'[Len(login_attempts')].username
                            = req[c].username
                       /\ ~ login_attempts'[Len(login_attempts')].success
                       /\ Outcome(req'[c]) = "InvalidCredentials"
                  ELSE login_attempts' = login_attempts
      ]_vars

\* C38 witness: a login for ghost has completed while alice's account has
\* counted failures; its record is the last of login_attempts.
C38_Witness ==
    \E c \in Clients :
        /\ LoginDone(c) /\ req[c].username = Ghost
        /\ Outcome(req[c]) = "InvalidCredentials"
        /\ SelectByUsername(users, Ghost) = NoRow
        /\ FailedCount(users, Alice) \in 1 .. LockThreshold - 1
        /\ login_attempts[Len(login_attempts)].username = Ghost
        /\ ~ login_attempts[Len(login_attempts)].success

\* C39: a step of a login for one username (its lock check with the lazy
\* unlock, its failure count, its reset) changes no account of another
\* username, and no step creates or removes an account; the passing of a
\* lock period changes no account at all.
C39_LockoutPerAccount ==
    [][ /\ Len(users') = Len(users)
        /\ \A c \in Clients :
              (pc'[c] # pc[c] /\ req'[c].op = "login")
                => \A i \in 1 .. Len(users) :
                     users[i].username # req'[c].username
                       => users'[i] = users[i]
        /\ (\A c \in Clients : pc'[c] = pc[c]) => users' = users
      ]_vars

\* C39 witness: after the lock period a lock check for alice has cleared
\* her expired lock, while bob's account, locked at the same time, still
\* carries its counter and its lock timestamp.
C39_Witness ==
    \E c \in Clients :
        /\ pc[c] = "lookup" /\ req[c].username = Alice
        /\ req[c].pre.account_locked_until # NULL
        /\ FailedCount(users, Alice) = 0
        /\ LockedUntil(users, Alice) = NULL
        /\ FailedCount(users, Bob) = LockThreshold
        /\ LockedUntil(users, Bob) # NULL
        /\ now >= LockedUntil(users, Bob)

====
